---------------------------- MODULE Spec2Model ----------------------------
(***************************************************************************)
(* falcon-sim: V2X sender / receiver with ECDSA or fragmented Falcon       *)
(* signatures.  The model covers Vehicle::prepare_signed_fragments and the *)
(* two signers, Vehicle::transmit (per-vehicle thread, injected loss and   *)
(* the resend pass), the datagram network, Vehicle::receive (reassembly    *)
(* table, completion, hand-off) and Vehicle::verify_message.               *)
(*                                                                         *)
(* Byte counts are scaled: the fragment payload capacity (512 in           *)
(* Vehicle.h) is MaxFragmentModel bytes and the Falcon signature capacity  *)
(* (1536 = 3 * 512) keeps its ratio of 3 to it.  The cryptographic         *)
(* primitives (ecdsa_sign / ecdsa_verify / falcon_sign / falcon_verify /   *)
(* sha256sum) live outside the modelled sources; they are modelled         *)
(* symbolically: a signature verifies iff the signer issued exactly these  *)
(* bytes for exactly this input under this key.                            *)
(***************************************************************************)
EXTENDS Integers, Sequences, FiniteSets, TLC

(***************************************************************************)
(* Bounds of the model.                                                    *)
(***************************************************************************)
MaxFragmentModel == 3      \* bytes of signature payload per fragment
MaxSpdus == 2              \* numVehicles * numMessages is at most MaxSpdus
MaxDatagrams == 4          \* fragments of the multi-fragment signatures of a run
MaxClock == 1              \* the wall clock takes the values 0..MaxClock
MaxForged == 1             \* datagrams a third party puts on the receiver's port

(***************************************************************************)
(* Program constants.                                                      *)
(***************************************************************************)
ECDSA == 0
FALCON == 1
MAX_SIGNATURE_FRAGMENT_SIZE == MaxFragmentModel
MAX_SIGNATURE_TOTAL_SIZE == 3 * MAX_SIGNATURE_FRAGMENT_SIZE
RecencyWindowMs == 30000
TickMs == RecencyWindowMs  \* milliseconds between two values of the clock
CertSigSize == 1           \* capacity of certificate_signature (72, scaled)
UINT16 == 65536

Min(a, b) == IF a < b THEN a ELSE b

VARIABLES
    pqc,                 \* pqc_options of the run: scheme, falcon_fragment_size
    num_vehicles,        \* scenario.numVehicles
    num_msgs,            \* scenario.numMessages
    drop_rate,           \* V2X_PACKET_LOSS_RATE clamped to [0, 1], times 100
    ecdsa_size,          \* ECDSA_size(private_ec_key)
    trace_len,           \* number of samples load_trace() read per vehicle
    clock,               \* system_clock::now(), in ticks of TickMs
    tx,                  \* per vehicle: the state of its transmit() thread
    net,                 \* datagrams handed to the socket and not yet delivered
    socket_log,          \* per vehicle: the (sequence, index) of every sendto, in order
    forged,              \* number of datagrams that came from no transmitter
    pending_messages,    \* receive(): the reassembly table
    completed_messages,  \* receive(): the completed counter
    rx_pc,               \* receive(): "running" or "exited"
    signed,              \* every (algorithm, key, input, signature) issued
    produced,            \* per message key: what the signer produced
    handoffs,            \* per message key: the calls of verify_message
    delivered            \* (vehicle_id, sequence, index) of every datagram recvfrom returned

cfg_vars == <<pqc, num_vehicles, num_msgs, drop_rate, ecdsa_size, trace_len>>
rx_vars == <<pending_messages, completed_messages, rx_pc, handoffs, delivered>>
vars == <<pqc, num_vehicles, num_msgs, drop_rate, ecdsa_size, trace_len, clock, tx, net,
          socket_log, forged, pending_messages, completed_messages, rx_pc, signed, produced,
          handoffs, delivered>>

(***************************************************************************)
(* The trace of a vehicle and the BSM generator.                           *)
(***************************************************************************)
TraceSample(number, t) == <<420 + t, 770 + t + number, 100>>

calculate_speed_kph(lat1, lat2, lon1, lon2, dt_ms) ==
    ((IF lat2 >= lat1 THEN lat2 - lat1 ELSE lat1 - lat2)
     + (IF lon2 >= lon1 THEN lon2 - lon1 ELSE lon1 - lon2)) * 36 * (100 \div dt_ms)

calculate_heading(lat1, lat2, lon1, lon2) ==
    ((lat2 - lat1) * 45 + (lon2 - lon1) * 90) % 360

generate_bsm(number, timestep) ==
    LET latitude == TraceSample(number, timestep)[1]
        longitude == TraceSample(number, timestep)[2]
        elevation == TraceSample(number, timestep)[3]
    IN [latitude |-> latitude,
        longitude |-> longitude,
        elevation |-> elevation,
        speed |-> IF timestep # 0
                  THEN calculate_speed_kph(TraceSample(number, timestep - 1)[1], latitude,
                                           TraceSample(number, timestep - 1)[2], longitude, 100)
                  ELSE 0,
        heading |-> IF timestep # 0
                    THEN calculate_heading(TraceSample(number, timestep - 1)[1], latitude,
                                           TraceSample(number, timestep - 1)[2], longitude)
                    ELSE 0]

(***************************************************************************)
(* Symbolic cryptography.                                                  *)
(***************************************************************************)
sha256sum(region) == [sha256 |-> region]

\* Key handles: load_key(number, certificate, ...) and the Falcon key pair.
SigningKey(number) == [role |-> "p256", number |-> number]
CertKey(number) == [role |-> "cert", number |-> number]
FalconKey(number) == [role |-> "falcon", number |-> number]

\* The bytes of one signature: non-zero, and different for different
\* signatures and different positions.  tag identifies the signing call.
PayloadTag(number, sequence_number) == 2 * (number * MaxSpdus + sequence_number)
CertTag(number, sequence_number) == 2 * (number * MaxSpdus + sequence_number) + 1
SignatureBytes(tag, len) ==
    [p \in 1..len |-> tag * (MAX_SIGNATURE_TOTAL_SIZE + 1) + p]

Issued(alg, key, input, sig) ==
    [alg |-> alg, key |-> key, input |-> input, sig |-> sig]

\* ecdsa_verify(hash, sig, &len, key): reads the first len bytes of sig.  A
\* len beyond the array is an out-of-bounds read: any answer may come back.
ecdsa_verify(hash, sig, len, key) ==
    IF len > Len(sig)
    THEN BOOLEAN
    ELSE {Issued("ecdsa", key, hash, SubSeq(sig, 1, len)) \in signed}

falcon_verify(message, sig, key) ==
    {Issued("falcon", key, message, sig) \in signed}


(***************************************************************************)
(* The SPDU builder and the two signers.                                   *)
(***************************************************************************)
vehicle_certificate_ecdsa == "ecdsa_explicit_certificate"

ZeroFragment == [p \in 1..MAX_SIGNATURE_FRAGMENT_SIZE |-> 0]

\* make_message_key without the sequence number in the key.
make_message_key_vehicle_only(vehicle_id, sequence_number) ==
    <<vehicle_id % 256, 0>>

\* Key of the reassembly table: (uint64(vehicle_id) << 32) | sequence_number.
\* The two fields occupy disjoint bits of the 64-bit key, which is written
\* here as its two 32-bit words, the high one first.
make_message_key(vehicle_id, sequence_number) ==
    <<vehicle_id % 256, sequence_number>>

\* clamp_fragment_size without the std::min.
clamp_fragment_size_unclamped(requested, maximum) ==
    IF requested = 0 THEN maximum ELSE requested

clamp_fragment_size(requested, maximum) ==
    IF requested = 0 THEN maximum ELSE Min(requested, maximum)

\* spdu = {} followed by the assignments of generate_spdu; cert_signature is
\* what ecdsa_sign returned for the certificate digest.
generate_spdu(number, sequence_number, timestep, now, cert_signature) ==
    [vehicle_id |-> number % 256,
     sequence_number |-> sequence_number,
     signature_scheme |-> 0,
     fragment_index |-> 0,
     fragment_count |-> 1,
     signature_buffer_length |-> 0,
     fragment_length |-> 0,
     signature_offset |-> 0,
     certificate_signature_buffer_length |-> Len(cert_signature),
     data |-> [signedData |->
                  [tbsData |-> [message |-> generate_bsm(number, timestep),
                                headerInfo |-> [timestamp |-> now]],
                   cert |-> vehicle_certificate_ecdsa],
               certificate_signature |->
                  [p \in 1..CertSigSize |->
                      IF p <= Len(cert_signature) THEN cert_signature[p] ELSE 0]],
     signature_fragment |-> ZeroFragment]

\* sign_message_ecdsa without the check of ECDSA_size against the fragment.
sign_message_ecdsa_unchecked(spdu, size, signature) ==
    [exit |-> FALSE,
     fragments |->
       <<[spdu EXCEPT
            !.signature_buffer_length = Len(signature),
            !.fragment_count = 1,
            !.fragment_index = 0,
            !.fragment_length = Len(signature),
            !.signature_offset = 0,
            !.signature_fragment =
                [p \in 1..MAX_SIGNATURE_FRAGMENT_SIZE |->
                    IF p <= Len(signature) THEN signature[p] ELSE 0]]>>]

\* sign_message_ecdsa: exit(EXIT_FAILURE) when ECDSA_size exceeds a fragment,
\* else the one fragment.  signature is what ecdsa_sign returned.
sign_message_ecdsa(spdu, size, signature) ==
    IF size > MAX_SIGNATURE_FRAGMENT_SIZE
    THEN [exit |-> TRUE, fragments |-> <<>>]
    ELSE [exit |-> FALSE,
          fragments |->
            <<[spdu EXCEPT
                 !.signature_buffer_length = Len(signature),
                 !.fragment_count = 1,
                 !.fragment_index = 0,
                 !.fragment_length = Len(signature),
                 !.signature_offset = 0,
                 !.signature_fragment =
                     [p \in 1..MAX_SIGNATURE_FRAGMENT_SIZE |->
                         IF p <= Len(signature) THEN signature[p] ELSE 0]]>>]

\* falcon_fragment with the memcpy reading from the start of the signature
\* instead of signature.data() + signature_offset.
falcon_fragment_from_start(spdu, signature, fragment_size, fragment_count, idx) ==
    LET signature_len == Len(signature)
        signature_offset == idx * fragment_size
        remaining == signature_len - signature_offset
        bytes_this_fragment == Min(fragment_size, remaining)
    IN [spdu EXCEPT
          !.signature_scheme = FALCON,
          !.fragment_count = fragment_count % UINT16,
          !.fragment_index = idx % UINT16,
          !.signature_buffer_length = signature_len,
          !.signature_offset = signature_offset,
          !.fragment_length = bytes_this_fragment,
          !.signature_fragment =
              [p \in 1..MAX_SIGNATURE_FRAGMENT_SIZE |->
                  IF p <= bytes_this_fragment THEN signature[p] ELSE 0]]

\* falcon_fragment with every fragment declared fragment_size bytes long
\* (no std::min with the remaining bytes).
falcon_fragment_full_length(spdu, signature, fragment_size, fragment_count, idx) ==
    LET signature_len == Len(signature)
        signature_offset == idx * fragment_size
        remaining == signature_len - signature_offset
        bytes_this_fragment == Min(fragment_size, remaining)
    IN [spdu EXCEPT
          !.signature_scheme = FALCON,
          !.fragment_count = fragment_count % UINT16,
          !.fragment_index = idx % UINT16,
          !.signature_buffer_length = signature_len,
          !.signature_offset = signature_offset,
          !.fragment_length = fragment_size,
          !.signature_fragment =
              [p \in 1..MAX_SIGNATURE_FRAGMENT_SIZE |->
                  IF p <= bytes_this_fragment
                  THEN signature[signature_offset + p]
                  ELSE 0]]

\* falcon_fragment with the header stamped again for every fragment.
falcon_fragment_restamped(spdu, signature, fragment_size, fragment_count, idx) ==
    LET signature_len == Len(signature)
        signature_offset == idx * fragment_size
        remaining == signature_len - signature_offset
        bytes_this_fragment == Min(fragment_size, remaining)
    IN [spdu EXCEPT
          !.signature_scheme = FALCON,
          !.fragment_count = fragment_count % UINT16,
          !.fragment_index = idx % UINT16,
          !.signature_buffer_length = signature_len,
          !.signature_offset = signature_offset,
          !.fragment_length = bytes_this_fragment,
          !.data.signedData.tbsData.headerInfo.timestamp = @ + idx,
          !.signature_fragment =
              [p \in 1..MAX_SIGNATURE_FRAGMENT_SIZE |->
                  IF p <= bytes_this_fragment
                  THEN signature[signature_offset + p]
                  ELSE 0]]

\* The body of the loop of sign_message_falcon for index idx.
falcon_fragment(spdu, signature, fragment_size, fragment_count, idx) ==
    LET signature_len == Len(signature)
        signature_offset == idx * fragment_size
        remaining == signature_len - signature_offset
        bytes_this_fragment == Min(fragment_size, remaining)
    IN [spdu EXCEPT
          !.signature_scheme = FALCON,
          !.fragment_count = fragment_count % UINT16,
          !.fragment_index = idx % UINT16,
          !.signature_buffer_length = signature_len,
          !.signature_offset = signature_offset,
          !.fragment_length = bytes_this_fragment,
          !.signature_fragment =
              [p \in 1..MAX_SIGNATURE_FRAGMENT_SIZE |->
                  IF p <= bytes_this_fragment
                  THEN signature[signature_offset + p]
                  ELSE 0]]

\* sign_message_falcon: signature is what falcon_sign returned (resized to
\* signature_len); requested is pqc.falcon_fragment_size.
sign_message_falcon(spdu, signature, requested) ==
    LET signature_len == Len(signature)
        fragment_size == clamp_fragment_size(requested, MAX_SIGNATURE_FRAGMENT_SIZE)
        fragment_count == (signature_len + fragment_size - 1) \div fragment_size
    IN [k \in 1..fragment_count |->
           falcon_fragment(spdu, signature, fragment_size, fragment_count, k - 1)]

\* prepare_signed_fragments(sequence_number, timestep) of vehicle number at
\* instant now, when the payload signature comes out len bytes long.
prepare_signed_fragments(number, sequence_number, timestep, now, len) ==
    LET cert_signature == SignatureBytes(CertTag(number, sequence_number), CertSigSize)
        generated == generate_spdu(number, sequence_number, timestep, now, cert_signature)
        base == [generated EXCEPT !.signature_scheme = pqc.scheme]
        signature == SignatureBytes(PayloadTag(number, sequence_number), len)
    IN IF pqc.scheme = ECDSA
       THEN sign_message_ecdsa(base, ecdsa_size, signature)
       ELSE [exit |-> FALSE,
             fragments |-> sign_message_falcon(base, signature, pqc.falcon_fragment_size)]

\* What the signing calls of prepare_signed_fragments add to the issued set.
IssuedBy(number, sequence_number, spdu, len) ==
    {Issued("ecdsa", CertKey(number), sha256sum(spdu.data.signedData.cert),
            SignatureBytes(CertTag(number, sequence_number), CertSigSize)),
     IF pqc.scheme = ECDSA
     THEN Issued("ecdsa", SigningKey(number), sha256sum(spdu.data.signedData.tbsData),
                 SignatureBytes(PayloadTag(number, sequence_number), len))
     ELSE Issued("falcon", FalconKey(number), spdu.data.signedData.tbsData,
                 SignatureBytes(PayloadTag(number, sequence_number), len))}


(***************************************************************************)
(* Vehicle::transmit, one thread per vehicle (main.cpp).                   *)
(***************************************************************************)
Vehicles == 0..(num_vehicles - 1)

IdleThread(i, pc) ==
    [pc |-> pc, i |-> i, fragments |-> <<>>, pos |-> 1, resend_queue |-> <<>>]

\* exit(EXIT_FAILURE) in one thread ends the process, hence every thread.
ProcessExit == [w \in DOMAIN tx |-> [tx[w] EXCEPT !.pc = "failed"]]

\* AfterFirstPass without the resend pass.
AfterFirstPass_no_resend(t) ==
    IF t.pos <= Len(t.fragments)
    THEN t
    ELSE [t EXCEPT !.pc = "sleep", !.pos = 1]

\* Where the thread goes after the first pass over the fragments.
AfterFirstPass(t) ==
    IF t.pos <= Len(t.fragments)
    THEN t
    ELSE [t EXCEPT !.pc = IF t.resend_queue # <<>> THEN "resend" ELSE "sleep",
                   !.pos = 1]

\* Prepare with the loop of line 138 counting down: the messages are built
\* from sequence number num_msgs - 1 to 0.
Prepare_descending(v, len) ==
    /\ tx[v].pc = "prepare"
    /\ LET i == tx[v].i
           down == num_msgs - 1 - i
           r == prepare_signed_fragments(v, down, down, clock, len)
           key == make_message_key(v, down)
       IN IF r.exit
          THEN /\ tx' = ProcessExit
               /\ UNCHANGED <<signed, produced>>
          ELSE /\ tx' = [tx EXCEPT ![v] =
                          AfterFirstPass([pc |-> "first_pass", i |-> i,
                                          fragments |-> r.fragments,
                                          pos |-> 1, resend_queue |-> <<>>])]
               /\ signed' = signed \cup IssuedBy(v, down, r.fragments[1], len)
               /\ produced' =
                     [k \in DOMAIN produced \cup {key} |->
                         IF k = key
                         THEN [signature |-> SignatureBytes(PayloadTag(v, down), len),
                               fragments |-> r.fragments]
                         ELSE produced[k]]
    /\ UNCHANGED <<cfg_vars, clock, net, socket_log, forged, rx_vars>>

\* The indices of this->timestep that generate_bsm(timestep) reads: lines
\* 412-414, and lines 418-427 when timestep != 0.
SamplesRead(timestep) ==
    {timestep} \cup (IF timestep # 0 THEN {timestep - 1} ELSE {})

\* Every index generate_bsm(timestep) reads is one of a sample load_trace read.
WithinTrace(timestep) ==
    SamplesRead(timestep) \subseteq 0..(trace_len - 1)

\* The BSMs a read outside the trace can give: this->timestep[t] with t not
\* below its size is an unchecked std::vector access.
StrayBsm ==
    {[latitude |-> x, longitude |-> x, elevation |-> x, speed |-> x, heading |-> x] :
        x \in {0, 1}}

\* What the call generate_bsm(timestep) of vehicle number can do: return the
\* BSM of the trace; or, on a read outside the trace, return a BSM that is
\* not the trace's or end the process on a memory fault.
MessagesBuilt(number, timestep) ==
    IF WithinTrace(timestep)
    THEN {[fault |-> FALSE, bsm |-> generate_bsm(number, timestep)]}
    ELSE {[fault |-> flt, bsm |-> b] : flt \in BOOLEAN, b \in StrayBsm}

\* The fragments of one SPDU carrying message as their BSM.
WithMessage(fragments, message) ==
    [k \in 1..Len(fragments) |->
        [fragments[k] EXCEPT !.data.signedData.tbsData.message = message]]

\* Line 139: auto fragments = prepare_signed_fragments(i, i), with the payload
\* signature coming out len bytes long.  A read outside the trace either
\* ends the process or gives a BSM that is not the trace's.
Prepare(v, len) ==
    /\ tx[v].pc = "prepare"
    /\ \E message \in MessagesBuilt(v, tx[v].i) :
          LET i == tx[v].i
              built == prepare_signed_fragments(v, i, i, clock, len)
              r == [built EXCEPT !.fragments = WithMessage(@, message.bsm)]
              key == make_message_key(v, i)
          IN IF message.fault \/ r.exit
             THEN /\ tx' = ProcessExit
                  /\ UNCHANGED <<signed, produced>>
             ELSE /\ tx' = [tx EXCEPT ![v] =
                             AfterFirstPass([pc |-> "first_pass", i |-> i,
                                             fragments |-> r.fragments,
                                             pos |-> 1, resend_queue |-> <<>>])]
                  /\ signed' = signed \cup IssuedBy(v, i, r.fragments[1], len)
                  /\ produced' =
                        [k \in DOMAIN produced \cup {key} |->
                            IF k = key
                            THEN [signature |-> SignatureBytes(PayloadTag(v, i), len),
                                  fragments |-> r.fragments]
                            ELSE produced[k]]
    /\ UNCHANGED <<cfg_vars, clock, net, socket_log, forged, rx_vars>>

\* The log of the vehicle's socket after sendto of fragment.
Logged(v, fragment) ==
    [socket_log EXCEPT ![v] = Append(@, <<fragment.sequence_number, fragment.fragment_index>>)]

\* DropFragment with the dropped fragment put at the front of the queue.
DropFragment_push_front(v) ==
    /\ tx[v].pc = "first_pass"
    /\ tx[v].pos <= Len(tx[v].fragments)
    /\ drop_rate > 0
    /\ tx' = [tx EXCEPT ![v] =
                AfterFirstPass([@ EXCEPT !.resend_queue = <<tx[v].fragments[tx[v].pos]>> \o @,
                                         !.pos = @ + 1])]
    /\ UNCHANGED <<cfg_vars, clock, net, socket_log, forged, rx_vars, signed, produced>>

\* DropFragment with the continue of line 145 left out: the fragment is queued
\* and sent as well.
DropFragment_and_send(v) ==
    /\ tx[v].pc = "first_pass"
    /\ tx[v].pos <= Len(tx[v].fragments)
    /\ drop_rate > 0
    /\ net' = net \cup {tx[v].fragments[tx[v].pos]}
    /\ socket_log' = Logged(v, tx[v].fragments[tx[v].pos])
    /\ tx' = [tx EXCEPT ![v] =
                AfterFirstPass([@ EXCEPT !.resend_queue = Append(@, tx[v].fragments[tx[v].pos]),
                                         !.pos = @ + 1])]
    /\ UNCHANGED <<cfg_vars, clock, forged, rx_vars, signed, produced>>

\* Lines 142-146: the draw dist(rng) < drop_rate came out true.
DropFragment(v) ==
    /\ tx[v].pc = "first_pass"
    /\ tx[v].pos <= Len(tx[v].fragments)
    /\ drop_rate > 0
    /\ tx' = [tx EXCEPT ![v] =
                AfterFirstPass([@ EXCEPT !.resend_queue = Append(@, tx[v].fragments[tx[v].pos]),
                                         !.pos = @ + 1])]
    /\ UNCHANGED <<cfg_vars, clock, net, socket_log, forged, rx_vars, signed, produced>>

\* Lines 147-156: the draw came out false, sendto.
SendFragment(v) ==
    /\ tx[v].pc = "first_pass"
    /\ tx[v].pos <= Len(tx[v].fragments)
    /\ drop_rate < 100
    /\ net' = net \cup {tx[v].fragments[tx[v].pos]}
    /\ socket_log' = Logged(v, tx[v].fragments[tx[v].pos])
    /\ tx' = [tx EXCEPT ![v] = AfterFirstPass([@ EXCEPT !.pos = @ + 1])]
    /\ UNCHANGED <<cfg_vars, clock, forged, rx_vars, signed, produced>>

\* Lines 159-174: the resend pass, one sendto per queued fragment.
ResendFragment(v) ==
    /\ tx[v].pc = "resend"
    /\ net' = net \cup {tx[v].resend_queue[tx[v].pos]}
    /\ socket_log' = Logged(v, tx[v].resend_queue[tx[v].pos])
    /\ tx' = [tx EXCEPT ![v] =
                IF tx[v].pos < Len(tx[v].resend_queue)
                THEN [@ EXCEPT !.pos = @ + 1]
                ELSE [@ EXCEPT !.pc = "sleep", !.pos = 1]]
    /\ UNCHANGED <<cfg_vars, clock, forged, rx_vars, signed, produced>>

\* NextMessage without the i++ of line 138.
NextMessage_same_index(v) ==
    /\ tx[v].pc = "sleep"
    /\ tx' = [tx EXCEPT ![v] = IdleThread(tx[v].i, "prepare")]
    /\ UNCHANGED <<cfg_vars, clock, net, socket_log, forged, rx_vars, signed, produced>>

\* Lines 175-178: the 100 ms sleep is over; next message, or close and return.
NextMessage(v) ==
    /\ tx[v].pc = "sleep"
    /\ tx' = [tx EXCEPT ![v] =
                IdleThread(tx[v].i + 1,
                           IF tx[v].i + 1 < num_msgs THEN "prepare" ELSE "done")]
    /\ UNCHANGED <<cfg_vars, clock, net, socket_log, forged, rx_vars, signed, produced>>

\* Time passes.
Tick ==
    /\ clock < MaxClock
    /\ clock' = clock + 1
    /\ UNCHANGED <<cfg_vars, tx, net, socket_log, forged, rx_vars, signed, produced>>


(***************************************************************************)
(* Vehicle::verify_message.                                                *)
(***************************************************************************)
\* Recent with <= in place of <.
Recent_inclusive(received_time, timestamp) ==
    (received_time - timestamp) * TickMs <= RecencyWindowMs

\* Lines 576-578: elapsed_time.count() < 30000, in milliseconds.
Recent(received_time, timestamp) ==
    (received_time - timestamp) * TickMs < RecencyWindowMs

\* The verdict without the freshness check.
Verdict_without_recent(cert_result, sig_result, recent) ==
    cert_result /\ sig_result

\* Line 580.
Verdict(cert_result, sig_result, recent) ==
    cert_result /\ sig_result /\ recent

\* PayloadCheck choosing by the scheme the receiver was configured with.
PayloadCheck_by_config(spdu, assembled_signature, vehicle_id) ==
    IF pqc.scheme = ECDSA
    THEN ecdsa_verify(sha256sum(spdu.data.signedData.tbsData),
                      assembled_signature,
                      spdu.signature_buffer_length,
                      SigningKey(vehicle_id))
    ELSE falcon_verify(spdu.data.signedData.tbsData,
                       assembled_signature,
                       FalconKey(vehicle_id))

\* Lines 544-567: the payload check, chosen by the tag the SPDU carries.
PayloadCheck(spdu, assembled_signature, vehicle_id) ==
    IF spdu.signature_scheme = ECDSA
    THEN ecdsa_verify(sha256sum(spdu.data.signedData.tbsData),
                      assembled_signature,
                      spdu.signature_buffer_length,
                      SigningKey(vehicle_id))
    ELSE falcon_verify(spdu.data.signedData.tbsData,
                       assembled_signature,
                       FalconKey(vehicle_id))

\* Lines 535-542: the certificate check.
CertificateCheck(spdu, vehicle_id) ==
    ecdsa_verify(sha256sum(spdu.data.signedData.cert),
                 spdu.data.certificate_signature,
                 spdu.certificate_signature_buffer_length,
                 CertKey(vehicle_id))

\* The results verify_message can return, with the three checks it made.
verify_message(spdu, assembled_signature, received_time, vehicle_id) ==
    {[cert_result |-> c,
      sig_result |-> s,
      recent |-> Recent(received_time, spdu.data.signedData.tbsData.headerInfo.timestamp),
      valid |-> Verdict(c, s, Recent(received_time,
                                     spdu.data.signedData.tbsData.headerInfo.timestamp))] :
        c \in CertificateCheck(spdu, vehicle_id),
        s \in PayloadCheck(spdu, assembled_signature, vehicle_id)}

(***************************************************************************)
(* Vehicle::receive: one iteration of the loop per datagram.               *)
(***************************************************************************)
\* pending_messages[key] of a key not in the table: a PendingMessage{}.
DefaultEntry ==
    [template_fragment |-> generate_spdu(0, 0, 0, 0, <<>>),
     signature_buffer |-> <<>>,
     fragments_received |-> <<>>,
     first_fragment_time |-> 0]

\* Lines 279-287.
InitEntry(entry, incoming, receive_time) ==
    IF entry.signature_buffer = <<>>
    THEN [template_fragment |->
             [incoming EXCEPT !.fragment_index = 0,
                              !.fragment_length = 0,
                              !.signature_fragment = ZeroFragment],
          signature_buffer |-> [p \in 1..incoming.signature_buffer_length |-> 0],
          fragments_received |-> [k \in 1..incoming.fragment_count |-> FALSE],
          first_fragment_time |-> receive_time]
    ELSE entry

\* Accepts without the test of line 293 on offset + length.
Accepts_any_offset(entry, incoming) ==
    /\ incoming.fragment_index < Len(entry.fragments_received)
    /\ ~entry.fragments_received[incoming.fragment_index + 1]

\* The condition of lines 289-293 under which the fragment is stored.
Accepts(entry, incoming) ==
    /\ incoming.fragment_index < Len(entry.fragments_received)
    /\ ~entry.fragments_received[incoming.fragment_index + 1]
    /\ incoming.signature_offset + incoming.fragment_length <= Len(entry.signature_buffer)

\* StoreFragment with copy_n writing at the start of the signature buffer
\* instead of at signature_offset.
StoreFragment_at_start(entry, incoming) ==
    IF Accepts(entry, incoming)
    THEN [entry EXCEPT
            !.signature_buffer =
                [p \in 1..Len(entry.signature_buffer) |->
                    IF p <= incoming.fragment_length
                    THEN incoming.signature_fragment[p]
                    ELSE entry.signature_buffer[p]],
            !.fragments_received[incoming.fragment_index + 1] = TRUE]
    ELSE entry

\* Lines 289-300: copy_n into the signature buffer and mark the index.
StoreFragment(entry, incoming) ==
    IF Accepts(entry, incoming)
    THEN [entry EXCEPT
            !.signature_buffer =
                [p \in 1..Len(entry.signature_buffer) |->
                    IF /\ p > incoming.signature_offset
                       /\ p <= incoming.signature_offset + incoming.fragment_length
                    THEN incoming.signature_fragment[p - incoming.signature_offset]
                    ELSE entry.signature_buffer[p]],
            !.fragments_received[incoming.fragment_index + 1] = TRUE]
    ELSE entry

\* Lines 302-306.
UpdateTemplate(entry, incoming) ==
    [entry EXCEPT
       !.template_fragment.data = incoming.data,
       !.template_fragment.signature_buffer_length = incoming.signature_buffer_length,
       !.template_fragment.certificate_signature_buffer_length =
           incoming.certificate_signature_buffer_length,
       !.template_fragment.signature_scheme = incoming.signature_scheme,
       !.template_fragment.fragment_count = incoming.fragment_count]

\* Complete with any_of in place of all_of.
Complete_any(entry) ==
    \E k \in 1..Len(entry.fragments_received) : entry.fragments_received[k]

\* Lines 308-310.
Complete(entry) ==
    \A k \in 1..Len(entry.fragments_received) : entry.fragments_received[k]

\* The entry of incoming's key after lines 276-306.
EntryAfter(incoming, receive_time) ==
    LET key == make_message_key(incoming.vehicle_id, incoming.sequence_number)
        found == IF key \in DOMAIN pending_messages
                 THEN pending_messages[key]
                 ELSE DefaultEntry
    IN UpdateTemplate(StoreFragment(InitEntry(found, incoming, receive_time), incoming),
                      incoming)

\* The loop test with one completion too many.
LoopContinues_one_more(completed) ==
    completed <= num_msgs * num_vehicles

\* Line 254: while (completed_messages < num_msgs), num_msgs being the
\* num_msgs * num_vehicles of main.cpp:133.
LoopContinues(completed) ==
    completed < num_msgs * num_vehicles

\* The counter when only valid SPDUs are counted.
CompletedAfter_only_valid(completed, valid_spdu) ==
    IF valid_spdu THEN completed + 1 ELSE completed

\* Line 348: completed_messages++, whatever valid_spdu is.
CompletedAfter(completed, valid_spdu) ==
    completed + 1

\* The values a byte read from outside an object can have.
StrayBytes == {0, 255}

\* What lies in memory after signature_fragment, the last member of the local
\* incoming, as far as copy_n of line 294 reads: nothing is read there when
\* fragment_length is within the array, and bytes that are not the
\* datagram's when it is not.
AdjacentMemory(incoming) ==
    IF incoming.fragment_length <= MAX_SIGNATURE_FRAGMENT_SIZE
    THEN {<<>>}
    ELSE [1..(incoming.fragment_length - MAX_SIGNATURE_FRAGMENT_SIZE) -> StrayBytes]

\* The local incoming with the bytes copy_n finds after its array.
AsRead(incoming, memory) ==
    [incoming EXCEPT !.signature_fragment = @ \o memory]

\* Lines 254-351 for the datagram incoming, read at instant clock.
ReceiveDatagram(incoming) ==
    /\ rx_pc = "running"
    /\ delivered' = delivered \cup {<<incoming.vehicle_id, incoming.sequence_number,
                                       incoming.fragment_index>>}
    /\ \E memory \in AdjacentMemory(incoming) :
       LET key == make_message_key(incoming.vehicle_id, incoming.sequence_number)
           entry == EntryAfter(AsRead(incoming, memory), clock)
       IN IF ~Complete(entry)
          THEN /\ pending_messages' =
                     [k \in DOMAIN pending_messages \cup {key} |->
                         IF k = key THEN entry ELSE pending_messages[k]]
               /\ UNCHANGED <<completed_messages, rx_pc, handoffs>>
          ELSE \E result \in verify_message(entry.template_fragment,
                                            entry.signature_buffer,
                                            clock, incoming.vehicle_id) :
               /\ handoffs' =
                     [k \in DOMAIN handoffs \cup {key} |->
                         IF k = key
                         THEN [spdu |-> entry.template_fragment,
                               assembled_signature |-> entry.signature_buffer,
                               fragments_received |-> entry.fragments_received,
                               received_time |-> clock,
                               vehicle_id |-> incoming.vehicle_id,
                               result |-> result,
                               count |-> IF key \in DOMAIN handoffs
                                         THEN handoffs[key].count + 1
                                         ELSE 1]
                         ELSE handoffs[k]]
               /\ completed_messages' = CompletedAfter(completed_messages, result.valid)
               /\ pending_messages' =
                     [k \in DOMAIN pending_messages \ {key} |-> pending_messages[k]]
               /\ rx_pc' = IF LoopContinues(CompletedAfter(completed_messages, result.valid))
                           THEN "running"
                           ELSE "exited"

\* recvfrom returns a datagram the network holds.
Deliver(f) ==
    /\ f \in net
    /\ net' = net \ {f}
    /\ ReceiveDatagram(f)
    /\ UNCHANGED <<cfg_vars, clock, tx, socket_log, forged, signed, produced>>

(***************************************************************************)
(* Datagrams from elsewhere.  The receiver's port takes whatever arrives:  *)
(* a third party that saw a fragment on the air can replay it or send an   *)
(* altered copy of it.                                                     *)
(***************************************************************************)
Altered(f) ==
    {f,
     [f EXCEPT !.data.signedData.tbsData.message.latitude = @ + 1],
     [f EXCEPT !.data.certificate_signature[1] = @ + 1],
     [f EXCEPT !.signature_fragment[1] = @ + 1],
     [f EXCEPT !.signature_buffer_length = 0, !.fragment_length = 0,
               !.signature_offset = 0],
     [f EXCEPT !.fragment_index = f.fragment_count],
     [f EXCEPT !.signature_offset = f.signature_buffer_length + 1]}

OnTheAir ==
    UNION {{produced[key].fragments[k] : k \in 1..Len(produced[key].fragments)} :
              key \in DOMAIN produced}

Inject(g) ==
    /\ forged < MaxForged
    /\ g \notin net
    /\ forged' = forged + 1
    /\ net' = net \cup {g}
    /\ UNCHANGED <<cfg_vars, clock, tx, socket_log, rx_vars, signed, produced>>

(***************************************************************************)
(* The network between sendto and recvfrom is UDP: it can lose a datagram  *)
(* and it can deliver one more than once.                                  *)
(***************************************************************************)
Lose(f) ==
    /\ f \in net
    /\ net' = net \ {f}
    /\ UNCHANGED <<cfg_vars, clock, tx, socket_log, forged, rx_vars, signed, produced>>

\* recvfrom returns a copy of a datagram the network goes on holding.
Redeliver(f) ==
    /\ f \in net
    /\ forged < MaxForged
    /\ forged' = forged + 1
    /\ ReceiveDatagram(f)
    /\ UNCHANGED <<cfg_vars, clock, tx, net, socket_log, signed, produced>>


(***************************************************************************)
(* Specifications.                                                         *)
(***************************************************************************)
\* The lengths the payload signature can come out with: ecdsa_sign writes at
\* most ECDSA_size bytes, falcon_sign at most MAX_SIGNATURE_TOTAL_SIZE.
PayloadLens(lens) ==
    IF pqc.scheme = ECDSA
    THEN {ecdsa_size}
    ELSE {l \in 1..MAX_SIGNATURE_TOTAL_SIZE : l \in lens}

\* main(): the scheme and the fragment size of the run.
Options(sizes) ==
    {[scheme |-> ECDSA, falcon_fragment_size |-> MAX_SIGNATURE_FRAGMENT_SIZE]}
    \cup {[scheme |-> FALCON, falcon_fragment_size |-> n] : n \in sizes}

\* The state after construction: every thread before its first message, the
\* receiver in its loop with an empty table.
Started ==
    /\ tx = [v \in Vehicles |-> IdleThread(0, "prepare")]
    /\ net = {}
    /\ socket_log = [v \in Vehicles |-> <<>>]
    /\ forged = 0
    /\ pending_messages = <<>>
    /\ completed_messages = 0
    /\ rx_pc = "running"
    /\ signed = {}
    /\ produced = <<>>
    /\ handoffs = <<>>
    /\ delivered = {}

\* The same with a trace that has a sample for every message of the run.
Start ==
    /\ trace_len = num_msgs
    /\ Started

\* The runs of the whole system: senders, network, receiver.
RunSizes == {0, MAX_SIGNATURE_FRAGMENT_SIZE - 1}
RunLens ==
    LET size == clamp_fragment_size(pqc.falcon_fragment_size, MAX_SIGNATURE_FRAGMENT_SIZE)
    IN {l \in {size, MAX_SIGNATURE_FRAGMENT_SIZE, MAX_SIGNATURE_FRAGMENT_SIZE + 1,
                MAX_SIGNATURE_TOTAL_SIZE - 1} :
           \/ l = size
           \/ num_vehicles * num_msgs * ((l + size - 1) \div size) <= MaxDatagrams}

\* scenario.numVehicles and scenario.numMessages.
Scenarios == {vm \in (1..MaxSpdus) \X (1..MaxSpdus) : vm[1] * vm[2] <= MaxSpdus}

Init ==
    /\ pqc \in Options(RunSizes)
    /\ \E vm \in Scenarios : num_vehicles = vm[1] /\ num_msgs = vm[2]
    /\ drop_rate \in {0, 50, 100}
    /\ ecdsa_size = MAX_SIGNATURE_FRAGMENT_SIZE
    /\ clock = 0
    /\ Start

Next ==
    \/ \E v \in Vehicles : \E len \in PayloadLens(RunLens) : Prepare(v, len)
    \/ \E v \in Vehicles : DropFragment(v)
    \/ \E v \in Vehicles : SendFragment(v)
    \/ \E v \in Vehicles : ResendFragment(v)
    \/ \E v \in Vehicles : NextMessage(v)
    \/ \E f \in net : Deliver(f)

Spec == Init /\ [][Next]_vars

\* The same runs when every thread keeps running and the network delivers
\* every datagram it holds.
FairSpec == Init /\ [][Next]_vars /\ WF_vars(Next)

\* One message of one sender, and a third party on the receiver's port.
AttackInit ==
    /\ pqc \in Options({0})
    /\ num_vehicles = 1
    /\ num_msgs = 1
    /\ drop_rate = 0
    /\ ecdsa_size = MAX_SIGNATURE_FRAGMENT_SIZE
    /\ clock = 0
    /\ Start

AttackNext ==
    \/ \E v \in Vehicles : \E len \in PayloadLens(RunLens) : Prepare(v, len)
    \/ \E v \in Vehicles : SendFragment(v)
    \/ \E v \in Vehicles : NextMessage(v)
    \/ \E f \in net : Deliver(f)
    \/ \E f \in OnTheAir : \E g \in Altered(f) : Inject(g)
    \/ Tick

AttackSpec == AttackInit /\ [][AttackNext]_vars

\* The same sender and receiver with a third party that changes the header
\* fields of the copies it sends: the scheme tag; a fragment_length one
\* above the capacity of signature_fragment with a buffer length that admits
\* it; a signature_buffer_length and a fragment_count one above the sender's
\* under the ECDSA tag.
Tampered(f) ==
    {[f EXCEPT !.signature_scheme = IF @ = ECDSA THEN FALCON ELSE ECDSA],
     [f EXCEPT !.signature_scheme = FALCON + 1],
     [f EXCEPT !.fragment_length = MAX_SIGNATURE_FRAGMENT_SIZE + 1,
               !.signature_offset = 0,
               !.signature_buffer_length =
                   IF @ > MAX_SIGNATURE_FRAGMENT_SIZE
                   THEN @
                   ELSE MAX_SIGNATURE_FRAGMENT_SIZE + 1],
     [f EXCEPT !.signature_buffer_length = @ + 1,
               !.fragment_count = @ + 1,
               !.signature_scheme = ECDSA]}

TamperNext ==
    \/ \E v \in Vehicles : \E len \in PayloadLens(RunLens) : Prepare(v, len)
    \/ \E v \in Vehicles : SendFragment(v)
    \/ \E v \in Vehicles : NextMessage(v)
    \/ \E f \in net : Deliver(f)
    \/ \E f \in OnTheAir : \E g \in Tampered(f) : Inject(g)

TamperSpec == AttackInit /\ [][TamperNext]_vars

\* One sender whose trace file has fewer lines than, as many lines as, or
\* more lines than the run has messages.
TraceInit ==
    /\ pqc \in Options({0})
    /\ num_vehicles = 1
    /\ num_msgs \in 1..MaxSpdus
    /\ trace_len \in 1..(MaxSpdus + 1)
    /\ drop_rate = 0
    /\ ecdsa_size = MAX_SIGNATURE_FRAGMENT_SIZE
    /\ clock = 0
    /\ Started

TraceNext ==
    \/ \E v \in Vehicles : \E len \in PayloadLens(RunLens) : Prepare(v, len)
    \/ \E v \in Vehicles : SendFragment(v)
    \/ \E v \in Vehicles : NextMessage(v)
    \/ \E f \in net : Deliver(f)

TraceSpec == TraceInit /\ [][TraceNext]_vars

\* One sender and the receiver across a network that loses and duplicates,
\* with the clock running.
NetInit ==
    /\ pqc \in Options({0})
    /\ num_vehicles = 1
    /\ num_msgs \in 1..MaxSpdus
    /\ drop_rate = 0
    /\ ecdsa_size = MAX_SIGNATURE_FRAGMENT_SIZE
    /\ clock = 0
    /\ Start

NetNext ==
    \/ \E v \in Vehicles : \E len \in PayloadLens(RunLens) : Prepare(v, len)
    \/ \E v \in Vehicles : SendFragment(v)
    \/ \E v \in Vehicles : NextMessage(v)
    \/ \E f \in net : Deliver(f)
    \/ \E f \in net : Lose(f)
    \/ \E f \in net : Redeliver(f)
    \/ Tick

NetSpec == NetInit /\ [][NetNext]_vars

\* The signer alone, on every input within the bounds.
SignInit ==
    /\ pqc \in Options(0..(MAX_SIGNATURE_FRAGMENT_SIZE + 2))
    /\ num_vehicles = 1
    /\ num_msgs \in 1..MaxSpdus
    /\ drop_rate = 0
    /\ ecdsa_size \in IF pqc.scheme = ECDSA
                      THEN 1..(MAX_SIGNATURE_FRAGMENT_SIZE + 1)
                      ELSE {MAX_SIGNATURE_FRAGMENT_SIZE}
    /\ clock \in 0..MaxClock
    /\ Start

SignNext ==
    \/ \E v \in Vehicles : \E len \in PayloadLens(1..MAX_SIGNATURE_TOTAL_SIZE) : Prepare(v, len)
    \/ \E v \in Vehicles : SendFragment(v)
    \/ \E v \in Vehicles : NextMessage(v)

SignSpec == SignInit /\ [][SignNext]_vars


(***************************************************************************)
(* Properties of the signer.                                               *)
(***************************************************************************)
\* The SPDUs a signer has produced, by key.
Signature(key) == produced[key].signature
Fragments(key) == produced[key].fragments
IsFalcon(key) == pqc.scheme = FALCON
FalconKeys == {key \in DOMAIN produced : IsFalcon(key)}
EcdsaKeys == {key \in DOMAIN produced : ~IsFalcon(key)}

\* The fragments of frags whose declared slice covers byte p of the signature.
Covering(frags, p) ==
    {k \in 1..Len(frags) :
        /\ frags[k].signature_offset < p
        /\ p <= frags[k].signature_offset + frags[k].fragment_length}

\* C1. Fragmentation totality: for a Falcon signature of any length 1..L and
\* any configured fragment size, writing the first fragment_length bytes of
\* every fragment at its signature_offset covers every byte of the signature
\* and writes each byte with the value the signer produced.
C1_FragmentationTotality ==
    \A key \in FalconKeys :
        LET frags == Fragments(key)
            sig == Signature(key)
        IN /\ Len(sig) \in 1..MAX_SIGNATURE_TOTAL_SIZE
           /\ \A k \in 1..Len(frags) :
                 frags[k].fragment_length <= MAX_SIGNATURE_FRAGMENT_SIZE
           /\ \A p \in 1..Len(sig) :
                 /\ Covering(frags, p) # {}
                 /\ \A k \in Covering(frags, p) :
                       frags[k].signature_fragment[p - frags[k].signature_offset] = sig[p]

\* A Falcon signature cut into three fragments, the last one shorter.
C1_Witness ==
    \E key \in FalconKeys :
        /\ Len(Fragments(key)) = 3
        /\ Fragments(key)[3].fragment_length < Fragments(key)[1].fragment_length
        /\ Fragments(key)[3].fragment_length > 0

\* The fragment size in effect, as the configuration states it.
EffectiveSize ==
    IF pqc.falcon_fragment_size = 0
       \/ pqc.falcon_fragment_size > MAX_SIGNATURE_FRAGMENT_SIZE
    THEN MAX_SIGNATURE_FRAGMENT_SIZE
    ELSE pqc.falcon_fragment_size

\* C6. Fragment slice invariant: every emitted fragment has
\* signature_offset + fragment_length <= signature_buffer_length and
\* fragment_length <= MAX_SIGNATURE_FRAGMENT_SIZE; Falcon fragment i has
\* offset i * fragment_size and length min(fragment_size, length - offset), so
\* the slices are non-empty, contiguous and pairwise disjoint.
C6_FragmentSlices ==
    \A key \in DOMAIN produced :
        LET frags == Fragments(key)
        IN /\ \A k \in 1..Len(frags) :
                 /\ frags[k].signature_offset + frags[k].fragment_length
                       <= frags[k].signature_buffer_length
                 /\ frags[k].fragment_length <= MAX_SIGNATURE_FRAGMENT_SIZE
                 /\ frags[k].signature_buffer_length = Len(Signature(key))
           /\ IsFalcon(key) =>
                 /\ \A k \in 1..Len(frags) :
                       /\ frags[k].signature_offset = (k - 1) * EffectiveSize
                       /\ frags[k].fragment_length =
                             Min(EffectiveSize,
                                 frags[k].signature_buffer_length - frags[k].signature_offset)
                       /\ frags[k].fragment_length >= 1
                 /\ \A k \in 1..(Len(frags) - 1) :
                       frags[k].signature_offset + frags[k].fragment_length
                          = frags[k + 1].signature_offset
                 /\ \A p \in 1..Len(Signature(key)) :
                       Cardinality(Covering(frags, p)) = 1

\* A Falcon SPDU of at least two fragments whose last slice is cut short by
\* the end of the signature.
C6_Witness ==
    \E key \in FalconKeys :
        LET frags == Fragments(key)
        IN /\ Len(frags) >= 2
           /\ frags[Len(frags)].fragment_length < EffectiveSize
           /\ EffectiveSize < MAX_SIGNATURE_FRAGMENT_SIZE

\* C7. Fragment count and clamping: the size in effect is the maximum when the
\* configured size is 0 or above the maximum, the configured size otherwise;
\* the signer emits exactly ceil(length / size) fragments, indexed 0, 1, ...
\* in that order, and the 16-bit fragment_count field holds that number.
C7_CountAndClamp ==
    /\ EffectiveSize \in 1..MAX_SIGNATURE_FRAGMENT_SIZE
    /\ \A key \in FalconKeys :
          LET frags == Fragments(key)
              len == Len(Signature(key))
          IN /\ (Len(frags) - 1) * EffectiveSize < len
             /\ len <= Len(frags) * EffectiveSize
             /\ Len(frags) < UINT16
             /\ \A k \in 1..Len(frags) :
                   /\ frags[k].fragment_index = k - 1
                   /\ frags[k].fragment_count = Len(frags)
                   /\ frags[k].fragment_length <= EffectiveSize
             /\ frags[1].fragment_length = Min(EffectiveSize, len)

\* A configured size above the maximum, clamped, with several fragments.
C7_Witness ==
    /\ pqc.falcon_fragment_size > MAX_SIGNATURE_FRAGMENT_SIZE
    /\ \E key \in FalconKeys :
          /\ Len(Fragments(key)) = 3
          /\ Fragments(key)[1].fragment_length = MAX_SIGNATURE_FRAGMENT_SIZE

\* The fields every fragment of one SPDU shares.
Shared(f) ==
    <<f.vehicle_id, f.sequence_number, f.signature_scheme, f.fragment_count,
      f.signature_buffer_length, f.data, f.certificate_signature_buffer_length>>

\* C8. Shared metadata: the fragments of one SPDU carry the same vehicle_id,
\* sequence_number, scheme tag, fragment_count, signature_buffer_length,
\* signed data and certificate signature with its length; the certificate
\* signature and the header timestamp are those generate_spdu made once for
\* the SPDU.
C8_SharedMetadata ==
    \A v \in Vehicles :
        LET frags == tx[v].fragments
            key == make_message_key(v, tx[v].i)
        IN \A k \in 1..Len(frags) :
              /\ Shared(frags[k]) = Shared(frags[1])
              /\ frags[k].vehicle_id = v
              /\ frags[k].sequence_number = tx[v].i
              /\ frags[k].signature_scheme = pqc.scheme
              /\ frags[k].certificate_signature_buffer_length = CertSigSize
              /\ frags[k].data.certificate_signature =
                    SignatureBytes(CertTag(v, tx[v].i), CertSigSize)
              /\ Cardinality({i \in signed :
                     i.key = CertKey(v)
                     /\ i.sig = frags[k].data.certificate_signature}) = 1
              /\ frags[k].data.signedData.tbsData.headerInfo.timestamp <= clock
              /\ frags[k].data.signedData.tbsData.message = generate_bsm(v, tx[v].i)

\* A thread holding the three fragments of a Falcon SPDU.
C8_Witness ==
    \E v \in Vehicles :
        /\ Len(tx[v].fragments) = 3
        /\ tx[v].fragments[3].signature_scheme = FALCON
        /\ tx[v].i = 0

\* C9. ECDSA shape: under the ECDSA scheme an SPDU is one fragment with tag
\* ECDSA, fragment_count 1, fragment_index 0, signature_offset 0 and
\* fragment_length = signature_buffer_length <= MAX_SIGNATURE_FRAGMENT_SIZE;
\* when ECDSA_size exceeds the maximum the sender ends and emits nothing.
C9_EcdsaShape ==
    pqc.scheme = ECDSA =>
        /\ \A key \in DOMAIN produced :
              LET frags == Fragments(key)
              IN /\ Len(frags) = 1
                 /\ frags[1].signature_scheme = ECDSA
                 /\ frags[1].fragment_count = 1
                 /\ frags[1].fragment_index = 0
                 /\ frags[1].signature_offset = 0
                 /\ frags[1].fragment_length = frags[1].signature_buffer_length
                 /\ frags[1].signature_buffer_length <= MAX_SIGNATURE_FRAGMENT_SIZE
                 /\ frags[1].signature_buffer_length = Len(Signature(key))
                 /\ SubSeq(frags[1].signature_fragment, 1, frags[1].fragment_length)
                       = Signature(key)
        /\ ecdsa_size > MAX_SIGNATURE_FRAGMENT_SIZE =>
              /\ produced = <<>>
              /\ net = {}
              /\ \A v \in Vehicles :
                    /\ tx[v].pc \in {"prepare", "failed"}
                    /\ tx[v].fragments = <<>>

\* An ECDSA SPDU whose signature fills the fragment exactly.
C9_Witness ==
    /\ pqc.scheme = ECDSA
    /\ \E key \in DOMAIN produced :
          /\ Len(Fragments(key)) = 1
          /\ Fragments(key)[1].fragment_length = MAX_SIGNATURE_FRAGMENT_SIZE

\* The sender ended by an ECDSA_size above the maximum.
C9_Fatal ==
    /\ ecdsa_size > MAX_SIGNATURE_FRAGMENT_SIZE
    /\ \E v \in Vehicles : tx[v].pc = "failed"


(***************************************************************************)
(* Properties of the receiver.                                             *)
(***************************************************************************)
KeyOf(f) == make_message_key(f.vehicle_id, f.sequence_number)

\* The fragment indices marked received in the entry of key.
Marked(key) ==
    IF key \in DOMAIN pending_messages
    THEN {k - 1 : k \in {j \in 1..Len(pending_messages[key].fragments_received) :
                            pending_messages[key].fragments_received[j]}}
    ELSE {}

\* This step is the receive loop reading datagram f off the network.
Delivered(f) == f \in net /\ net' = net \ {f}

\* This step made a call of verify_message.
HandedOff == handoffs' # handoffs

\* Every SPDU of the scenario.
AllKeys == {make_message_key(v, s) : v \in Vehicles, s \in 0..(num_msgs - 1)}

\* C2. Round trip without loss: when the network delivers every datagram
\* exactly once, in any order, every SPDU (i, s) is eventually completed and
\* handed to the verifier with a signature buffer equal to the signature the
\* signer produced and with the signed data the sender signed, under ECDSA
\* and under Falcon; a Falcon SPDU took ceil(length / fragment size)
\* datagrams.
C2_AllHandedOver ==
    \A key \in AllKeys :
        /\ key \in DOMAIN handoffs
        /\ key \in DOMAIN produced
        /\ handoffs[key].assembled_signature = Signature(key)
        /\ handoffs[key].spdu.data = Fragments(key)[1].data
        /\ handoffs[key].count = 1
        /\ LET n == Cardinality({j \in 1..Len(socket_log[key[1]]) :
                                    socket_log[key[1]][j][1] = key[2]})
           IN /\ n = Len(Fragments(key))
              /\ (n - 1) * EffectiveSize < Len(Signature(key))
              /\ Len(Signature(key)) <= n * EffectiveSize

C2_RoundTrip == <>C2_AllHandedOver

\* Two Falcon SPDUs, one of them with a fragment that went out in the resend
\* pass, all completed.
C2_Witness ==
    /\ C2_AllHandedOver
    /\ pqc.scheme = FALCON
    /\ Cardinality(AllKeys) = 2
    /\ \E v \in Vehicles : \E j \in 1..(Len(socket_log[v]) - 1) :
          /\ socket_log[v][j][1] = socket_log[v][j + 1][1]
          /\ socket_log[v][j][2] > socket_log[v][j + 1][2]

\* C3. Out-of-order tolerance: whatever the order in which the fragments of
\* an SPDU arrive, the buffer handed to the verifier is the signature the
\* signer produced and the template carries the SPDU's signed data, scheme
\* tag, fragment count and signature length; the hand-off happens on the
\* arrival of the N-th distinct index and on no other.
C3_SameHandOff ==
    \A key \in DOMAIN handoffs :
        LET h == handoffs[key]
            first == Fragments(key)[1]
        IN /\ h.assembled_signature = Signature(key)
           /\ h.spdu.data = first.data
           /\ h.spdu.signature_scheme = first.signature_scheme
           /\ h.spdu.fragment_count = first.fragment_count
           /\ h.spdu.signature_buffer_length = first.signature_buffer_length
           /\ h.spdu.fragment_count = Len(Fragments(key))

C3_OnNthIndex ==
    \A f \in net :
        Delivered(f) =>
            (HandedOff <=>
                Cardinality(Marked(KeyOf(f)) \cup {f.fragment_index}) = f.fragment_count)

C3_OutOfOrder == []C3_SameHandOff /\ [][C3_OnNthIndex]_vars

\* Indices 0 and 2 of a three-fragment SPDU have arrived, index 1 has not:
\* the bytes of the middle slice are still zero.
C3_Witness ==
    \E key \in DOMAIN pending_messages :
        LET e == pending_messages[key]
        IN /\ Len(e.fragments_received) = 3
           /\ Marked(key) = {0, 2}
           /\ e.signature_buffer[1] # 0
           /\ e.signature_buffer[MAX_SIGNATURE_FRAGMENT_SIZE + 1] = 0
           /\ e.signature_buffer[Len(e.signature_buffer)] # 0

\* C4. Idempotent reassembly: while the entry of a key is pending, a
\* fragment whose index is already marked received changes neither the
\* signature buffer nor the arrival bitmap nor the completed counter.
C4_MarkedIndexIgnored ==
    \A f \in net :
        (Delivered(f) /\ f.fragment_index \in Marked(KeyOf(f))) =>
            /\ KeyOf(f) \in DOMAIN pending_messages'
            /\ pending_messages'[KeyOf(f)].signature_buffer
                  = pending_messages[KeyOf(f)].signature_buffer
            /\ pending_messages'[KeyOf(f)].fragments_received
                  = pending_messages[KeyOf(f)].fragments_received
            /\ completed_messages' = completed_messages

C4_Idempotent == [][C4_MarkedIndexIgnored]_vars

\* The same for entries whose signature buffer is not empty.
C4_NonEmptyBuffer ==
    [][\A f \in net :
          (/\ Delivered(f)
           /\ f.fragment_index \in Marked(KeyOf(f))
           /\ pending_messages[KeyOf(f)].signature_buffer # <<>>) =>
              /\ KeyOf(f) \in DOMAIN pending_messages'
              /\ pending_messages'[KeyOf(f)].signature_buffer
                    = pending_messages[KeyOf(f)].signature_buffer
              /\ pending_messages'[KeyOf(f)].fragments_received
                    = pending_messages[KeyOf(f)].fragments_received
              /\ completed_messages' = completed_messages]_vars

\* C5. Completion rule: the receiver calls the verifier exactly on the
\* datagram after which every bit of the key's bitmap is set, never with an
\* index of [0, fragment_count) missing; in that step the completed counter
\* grows by one and the entry leaves the table, so between datagrams no entry
\* of the table has all its bits set.
C5_NoFullEntry ==
    /\ \A key \in DOMAIN pending_messages :
          \E k \in 1..Len(pending_messages[key].fragments_received) :
              ~pending_messages[key].fragments_received[k]
    /\ \A key \in DOMAIN handoffs :
          /\ Len(handoffs[key].fragments_received) = handoffs[key].spdu.fragment_count
          /\ \A k \in 1..handoffs[key].spdu.fragment_count :
                handoffs[key].fragments_received[k]

C5_Step ==
    \A f \in net :
        Delivered(f) =>
            LET key == KeyOf(f)
                all_set == Marked(key) \cup {f.fragment_index} = 0..(f.fragment_count - 1)
            IN /\ HandedOff <=> all_set
               /\ all_set =>
                     /\ completed_messages' = completed_messages + 1
                     /\ key \notin DOMAIN pending_messages'
                     /\ key \in DOMAIN handoffs'
                     /\ handoffs'[key].received_time = clock
               /\ ~all_set =>
                     /\ completed_messages' = completed_messages
                     /\ key \in DOMAIN pending_messages'
                     /\ Marked(key)' = Marked(key) \cup {f.fragment_index}

C5_CompletionRule == []C5_NoFullEntry /\ [][C5_Step]_vars

\* The same rule on the receiver's port with a third party: the bits counted
\* are those of the entry as lines 279-287 leave it.
C5_UnderForgery ==
    [][\A f \in net :
          Delivered(f) =>
              LET key == KeyOf(f)
                  kept == IF key \in DOMAIN pending_messages
                             /\ pending_messages[key].signature_buffer # <<>>
                          THEN Marked(key)
                          ELSE {}
                  all_set == kept \cup {f.fragment_index} = 0..(f.fragment_count - 1)
              IN /\ HandedOff <=> all_set
                 /\ all_set => /\ completed_messages' = completed_messages + 1
                               /\ key \notin DOMAIN pending_messages'
                 /\ ~all_set => /\ completed_messages' = completed_messages
                                /\ key \in DOMAIN pending_messages']_vars

\* A three-fragment SPDU handed over while another SPDU is still pending.
C5_Witness ==
    /\ \E key \in DOMAIN handoffs : handoffs[key].spdu.fragment_count >= 2
    /\ completed_messages = 1
    /\ pending_messages # <<>>

\* C10. Verdict policy: the result of verify_message is cert_ok AND sig_ok AND
\* recent, where cert_ok is the check of the certificate signature, sig_ok
\* the check of the reassembled buffer under the scheme of the SPDU and recent
\* the freshness check; the result is false as soon as one of them is.
C10_VerdictPolicy ==
    \A key \in DOMAIN handoffs :
        LET h == handoffs[key]
            r == h.result
            signedData == h.spdu.data.signedData
            cert_ok == Issued("ecdsa", CertKey(h.vehicle_id), sha256sum(signedData.cert),
                              SubSeq(h.spdu.data.certificate_signature, 1,
                                     h.spdu.certificate_signature_buffer_length))
                          \in signed
            sig_ok == IF h.spdu.signature_scheme = ECDSA
                      THEN Issued("ecdsa", SigningKey(h.vehicle_id),
                                  sha256sum(signedData.tbsData),
                                  SubSeq(h.assembled_signature, 1,
                                         h.spdu.signature_buffer_length)) \in signed
                      ELSE Issued("falcon", FalconKey(h.vehicle_id), signedData.tbsData,
                                  h.assembled_signature) \in signed
            age_ms == (h.received_time - signedData.tbsData.headerInfo.timestamp) * TickMs
        IN /\ r.valid <=> (r.cert_result /\ r.sig_result /\ r.recent)
           /\ r.recent <=> age_ms < RecencyWindowMs
           /\ h.spdu.certificate_signature_buffer_length <= CertSigSize =>
                 (r.cert_result <=> cert_ok)
           /\ h.spdu.signature_buffer_length <= Len(h.assembled_signature) =>
                 (r.sig_result <=> sig_ok)
           /\ ~r.cert_result => ~r.valid
           /\ ~r.sig_result => ~r.valid
           /\ ~r.recent => ~r.valid

\* A stale SPDU whose two signatures pass: the verdict is false.
C10_Witness ==
    \E key \in DOMAIN handoffs :
        LET r == handoffs[key].result
        IN r.cert_result /\ r.sig_result /\ ~r.recent /\ ~r.valid

\* Verdicts made false by the certificate check alone, by the payload check
\* alone, and a true verdict.
C10_BadCertificate ==
    \E key \in DOMAIN handoffs :
        LET r == handoffs[key].result
        IN ~r.cert_result /\ r.sig_result /\ r.recent /\ ~r.valid

C10_BadPayload ==
    \E key \in DOMAIN handoffs :
        LET r == handoffs[key].result
        IN r.cert_result /\ ~r.sig_result /\ r.recent /\ ~r.valid

C10_Valid ==
    \E key \in DOMAIN handoffs : handoffs[key].result.valid


\* The three checks recorded at a hand-over against the age of the SPDU.
C11_RecentIffYoung ==
    \A key \in DOMAIN handoffs :
        LET h == handoffs[key]
            elapsed_ms == (h.received_time
                             - h.spdu.data.signedData.tbsData.headerInfo.timestamp) * TickMs
        IN /\ h.result.recent <=> elapsed_ms < 30000
           /\ elapsed_ms >= 30000 => ~h.result.valid

C11_CompletingDatagram ==
    \A f \in net :
        (Delivered(f) /\ HandedOff) =>
            /\ handoffs'[KeyOf(f)].received_time = clock
            /\ handoffs'[KeyOf(f)].spdu.data.signedData.tbsData.headerInfo.timestamp
                  = f.data.signedData.tbsData.headerInfo.timestamp

\* C11. Staleness: recent holds exactly when receive_time - header.timestamp,
\* in milliseconds, is strictly below 30000, receive_time being the instant
\* the datagram that completed the SPDU was read; an SPDU whose timestamp is
\* 30000 ms or more before it is not valid even when both signatures pass.
C11_Staleness == []C11_RecentIffYoung /\ [][C11_CompletingDatagram]_vars

\* A Falcon SPDU of several fragments, both signatures good, completed
\* exactly 30000 ms after its timestamp: not recent, not valid.
C11_Witness ==
    \E key \in DOMAIN handoffs :
        LET h == handoffs[key]
        IN /\ h.spdu.fragment_count >= 2
           /\ (h.received_time - h.spdu.data.signedData.tbsData.headerInfo.timestamp)
                 * TickMs = 30000
           /\ h.result.cert_result
           /\ h.result.sig_result
           /\ ~h.result.valid


\* Some fragment index of the SPDU of key has not been read by the receiver.
Undelivered(key) ==
    \E k \in 1..Len(Fragments(key)) : <<key[1], key[2], k - 1>> \notin delivered

\* While an index of an SPDU is undelivered the SPDU is not handed over.
C12_NotHandedOver ==
    \A key \in DOMAIN produced : Undelivered(key) => key \notin DOMAIN handoffs

\* While an index of an SPDU is undelivered its entry, once in the table,
\* stays there.
C12_EntryStays ==
    \A key \in DOMAIN pending_messages \cap DOMAIN produced :
        Undelivered(key)' => key \in DOMAIN pending_messages'

\* While an index of an SPDU is undelivered the counter is below the
\* expected total and the receiver runs.
C12_ReceiverRuns ==
    \A key \in DOMAIN produced :
        Undelivered(key) =>
            /\ completed_messages < num_msgs * num_vehicles
            /\ rx_pc = "running"

\* C12. Permanent loss: an SPDU one of whose fragment indices is never
\* delivered is never handed to the verifier, its entry stays in the table in
\* every later state, the completed counter never reaches the expected total
\* and the receiver never terminates.
C12_PermanentLoss ==
    /\ []C12_NotHandedOver
    /\ [][C12_EntryStays]_vars
    /\ []C12_ReceiverRuns

\* The last part when the network has delivered no datagram twice.
C12_ReceiverRunsWithoutCopies ==
    forged = 0 => C12_ReceiverRuns

\* An SPDU stuck in the table: one index read, another lost by the network
\* after its sender has finished.
C12_Stuck ==
    \E key \in DOMAIN pending_messages \cap DOMAIN produced :
        /\ Undelivered(key)
        /\ Marked(key) # {}
        /\ \A f \in net : KeyOf(f) # key
        /\ tx[key[1]].pc = "done"


\* The expected total the driver gives the receiver (main.cpp:133).
ExpectedTotal == num_msgs * num_vehicles

\* The counter is within its range and the receiver has exited exactly when
\* it equals the expected total.
C13_CounterAndExit ==
    /\ completed_messages \in 0..ExpectedTotal
    /\ rx_pc = "exited" <=> completed_messages = ExpectedTotal

C13_LoopStep ==
    /\ completed_messages' \in {completed_messages, completed_messages + 1}
    /\ rx_vars' # rx_vars => (rx_pc = "running" /\ completed_messages < ExpectedTotal)
    /\ rx_pc' # rx_pc =>
          /\ rx_pc' = "exited"
          /\ completed_messages = ExpectedTotal - 1
          /\ completed_messages' = ExpectedTotal

\* C13. Receiver termination: the receiver processes datagrams while the
\* completed counter is below the expected total M x V and exits at the first
\* step in which the counter equals it; the counter never exceeds the total
\* and the receiver never exits earlier.
C13_ReceiverTermination == []C13_CounterAndExit /\ [][C13_LoopStep]_vars

\* The receiver has exited on its second completion and left datagrams unread.
C13_Witness ==
    /\ rx_pc = "exited"
    /\ completed_messages = ExpectedTotal
    /\ ExpectedTotal >= 2
    /\ net # {}


\* The keys whose call of verify_message this step made.
HandedOffKeys ==
    {key \in DOMAIN handoffs' : key \notin DOMAIN handoffs \/ handoffs'[key] # handoffs[key]}

\* What a step that hands over an SPDU with a false verdict does.
C14_FalseVerdictStep ==
    \A key \in HandedOffKeys :
        ~handoffs'[key].result.valid =>
            /\ completed_messages' = completed_messages + 1
            /\ key \notin DOMAIN pending_messages'
            /\ rx_pc' = IF completed_messages + 1 < ExpectedTotal
                        THEN "running"
                        ELSE "exited"
            /\ \A other \in DOMAIN pending_messages \ {key} :
                  /\ other \in DOMAIN pending_messages'
                  /\ pending_messages'[other] = pending_messages[other]

\* C14. Verification failure is not fatal: a completed SPDU whose verdict is
\* false (the model's keys are always loadable) is treated by the receive
\* loop like a valid one: the completed counter grows by one, the entry is
\* erased, and the loop goes on while the counter is below the total.
C14_FailureNotFatal == [][C14_FalseVerdictStep]_vars

\* A first SPDU completed with a false verdict, and another SPDU completed
\* after it by the same loop.
C14_Witness ==
    /\ completed_messages >= 2
    /\ \E key \in DOMAIN handoffs :
          /\ ~handoffs[key].result.valid
          /\ \E other \in DOMAIN handoffs \ {key} :
                handoffs[other].received_time >= handoffs[key].received_time

\* The receiver still in its loop right after a false verdict.
C14_StillRunning ==
    /\ rx_pc = "running"
    /\ completed_messages = 1
    /\ \E key \in DOMAIN handoffs : ~handoffs[key].result.valid


\* The entry of f's key as line 276 finds it and lines 279-287 leave it.
EntryBefore(f) ==
    InitEntry(IF KeyOf(f) \in DOMAIN pending_messages
              THEN pending_messages[KeyOf(f)]
              ELSE DefaultEntry,
              f, clock)

\* The two anomalies of lines 289 and 293.
IndexOutOfRange(f) ==
    f.fragment_index >= Len(EntryBefore(f).fragments_received)

BeyondBuffer(f) ==
    f.signature_offset + f.fragment_length > Len(EntryBefore(f).signature_buffer)

\* What a step that reads an anomalous fragment does.
C15_AnomalyStep ==
    \A f \in net :
        (/\ Delivered(f)
         /\ rx_pc = "running"
         /\ IndexOutOfRange(f) \/ BeyondBuffer(f))
        => /\ KeyOf(f) \in DOMAIN pending_messages'
           /\ pending_messages'[KeyOf(f)].signature_buffer =
                 EntryBefore(f).signature_buffer
           /\ pending_messages'[KeyOf(f)].fragments_received =
                 EntryBefore(f).fragments_received
           /\ UNCHANGED <<completed_messages, handoffs, rx_pc>>

\* C15. Reassembly anomalies are ignored: a fragment whose index is not below
\* the entry's fragment count, or whose offset + length exceeds the entry's
\* buffer, changes no byte of the buffer and sets no bit of the bitmap, and
\* the loop continues: nothing is handed over or counted, the entry stays.
C15_AnomaliesIgnored == [][C15_AnomalyStep]_vars

\* An entry created by an anomalous fragment: a buffer of zeros and no bit
\* set, the loop still running.
C15_Witness ==
    /\ rx_pc = "running"
    /\ \E key \in DOMAIN pending_messages :
          LET entry == pending_messages[key]
          IN /\ Len(entry.signature_buffer) >= 1
             /\ Len(entry.fragments_received) >= 1
             /\ \A p \in 1..Len(entry.signature_buffer) : entry.signature_buffer[p] = 0
             /\ \A k \in 1..Len(entry.fragments_received) : ~entry.fragments_received[k]

\* The same entry when the anomaly was the index.
C15_BadIndex ==
    /\ C15_Witness
    /\ \E d \in delivered :
          /\ <<d[1], d[2]>> \in DOMAIN pending_messages
          /\ d[3] >= Len(pending_messages[<<d[1], d[2]>>].fragments_received)

\* The same entry when the anomaly was offset + length.
C15_BadOffset ==
    /\ C15_Witness
    /\ \A d \in delivered :
          <<d[1], d[2]>> \in DOMAIN pending_messages
              => d[3] < Len(pending_messages[<<d[1], d[2]>>].fragments_received)


(***************************************************************************)
(* The transmitter's socket: socket_log[v] is the sequence of              *)
(* <<sequence_number, fragment_index>> of the sendto calls of vehicle v.   *)
(***************************************************************************)
\* The positions of socket_log[v] at which fragment <<sequence, index>> was
\* handed to the socket.
SendsOf(v, sequence, index) ==
    {n \in 1..Len(socket_log[v]) : socket_log[v][n] = <<sequence, index>>}

\* The indices of the fragments held by a sequence of fragments.
IndicesOf(fragments) ==
    {fragments[k].fragment_index : k \in 1..Len(fragments)}

\* C16. Loss with single retry: the injected drop applies to the retry as it
\* does to the original send, so a fragment can be dropped both times and is
\* then lost for good; an SPDU of N fragments leaves within the retry burst
\* with probability (1 - p^2)^N.  At p = 1 this probability is 0: every
\* fragment is dropped on both attempts and no datagram ever leaves.
C16_DroppedOnRetry ==
    drop_rate = 100 =>
        /\ net = {}
        /\ \A v \in Vehicles : socket_log[v] = <<>>

\* What the resend pass does instead: once a thread is past the passes of a
\* message, every fragment of the message has been handed to the socket,
\* whatever the drop rate.
C16_RetryNeverDropped ==
    \A v \in Vehicles :
        tx[v].pc = "sleep" =>
            \A k \in 1..Len(tx[v].fragments) :
                SendsOf(v, tx[v].i, tx[v].fragments[k].fragment_index) # {}

\* A message finished at drop rate 1 with every fragment sent.
C16_AllResent ==
    /\ drop_rate = 100
    /\ \E v \in Vehicles :
          /\ tx[v].pc = "sleep"
          /\ Len(tx[v].fragments) >= 2
          /\ Len(socket_log[v]) >= 2


\* The number of sendto calls of fragment index of the current message of v.
TimesSent(v, index) == Cardinality(SendsOf(v, tx[v].i, index))

\* The sendto calls of the current message in each phase of the thread.
C17_FirstPass ==
    \A v \in Vehicles :
        tx[v].pc = "first_pass" =>
            /\ tx[v].pos <= Len(tx[v].fragments)
            /\ \A k \in 1..Len(tx[v].fragments) :
                  LET index == tx[v].fragments[k].fragment_index
                      queued == index \in IndicesOf(tx[v].resend_queue)
                  IN IF k < tx[v].pos
                     THEN TimesSent(v, index) = IF queued THEN 0 ELSE 1
                     ELSE ~queued /\ TimesSent(v, index) = 0

C17_ResendPass ==
    \A v \in Vehicles :
        tx[v].pc = "resend" =>
            /\ tx[v].resend_queue # <<>>
            /\ tx[v].pos <= Len(tx[v].resend_queue)
            /\ \A k \in 1..Len(tx[v].fragments) :
                  tx[v].fragments[k].fragment_index \notin IndicesOf(tx[v].resend_queue)
                      => TimesSent(v, tx[v].fragments[k].fragment_index) = 1
            /\ \A q \in 1..Len(tx[v].resend_queue) :
                  TimesSent(v, tx[v].resend_queue[q].fragment_index) =
                      IF q < tx[v].pos THEN 1 ELSE 0

C17_AfterPasses ==
    \A v \in Vehicles :
        tx[v].pc = "sleep" =>
            \A k \in 1..Len(tx[v].fragments) :
                TimesSent(v, tx[v].fragments[k].fragment_index) = 1

C17_NeverTwice ==
    \A v \in Vehicles :
        \A n, m \in 1..Len(socket_log[v]) :
            socket_log[v][n] = socket_log[v][m] => n = m

\* A send of the resend pass is the send of a queued fragment, and the pass
\* is entered only from a finished first pass with a non-empty queue.
C17_ResendStep ==
    \A v \in Vehicles :
        /\ (tx[v].pc = "resend" /\ socket_log'[v] # socket_log[v])
              => socket_log'[v] =
                    Append(socket_log[v],
                           <<tx[v].i, tx[v].resend_queue[tx[v].pos].fragment_index>>)
        /\ (tx[v].pc # "resend" /\ tx'[v].pc = "resend")
              => /\ tx[v].pc \in {"prepare", "first_pass"}
                 /\ tx'[v].resend_queue # <<>>
        /\ (tx[v].pc # "sleep" /\ tx'[v].pc = "sleep" /\ tx[v].pc # "resend")
              => tx'[v].resend_queue = <<>>

\* C17. Single retry: a fragment dropped in the first pass is put in the
\* resend queue and sent exactly once in the resend pass, which starts only
\* after the first pass over all the fragments of the message; a fragment not
\* dropped is sent exactly once in the first pass; no fragment is handed to
\* the socket more than once; the resend pass runs only when at least one
\* fragment was dropped.
C17_SingleRetry ==
    /\ [](C17_FirstPass /\ C17_ResendPass /\ C17_AfterPasses /\ C17_NeverTwice)
    /\ [][C17_ResendStep]_vars

\* A finished message of which some fragments were dropped and resent and
\* the others sent in the first pass.
C17_Witness ==
    \E v \in Vehicles :
        /\ tx[v].pc = "sleep"
        /\ tx[v].resend_queue # <<>>
        /\ Len(tx[v].resend_queue) < Len(tx[v].fragments)
        /\ Len(socket_log[v]) >= Len(tx[v].fragments)


\* The sendto call this step made for vehicle v, if it made one.
SentNow(v) == socket_log'[v][Len(socket_log'[v])]

\* The order of C18 taken over the whole SPDU, both passes together: among
\* the datagrams of one SPDU, a later sendto has a greater fragment_index.
C18_IndexOrder ==
    \A v \in Vehicles :
        \A n, m \in 1..Len(socket_log[v]) :
            (n < m /\ socket_log[v][n][1] = socket_log[v][m][1])
                => socket_log[v][n][2] < socket_log[v][m][2]

\* What a step that calls sendto adds to the socket log.
C18_PassStep ==
    \A v \in Vehicles :
        socket_log'[v] # socket_log[v] =>
            /\ SentNow(v)[1] = tx[v].i
            /\ tx[v].pc = "first_pass" =>
                  /\ SentNow(v)[2] = tx[v].fragments[tx[v].pos].fragment_index
                  /\ \A n \in 1..Len(socket_log[v]) :
                        socket_log[v][n][1] = tx[v].i
                            => socket_log[v][n][2] < SentNow(v)[2]
            /\ tx[v].pc = "resend" =>
                  /\ SentNow(v)[2] = tx[v].resend_queue[tx[v].pos].fragment_index
                  /\ \A q \in 1..(tx[v].pos - 1) :
                        tx[v].resend_queue[q].fragment_index < SentNow(v)[2]

C18_NoDropInOrder ==
    \A v \in Vehicles :
        (tx[v].resend_queue = <<>> /\ tx[v].pc \in {"first_pass", "resend", "sleep"})
            => \A n, m \in 1..Len(socket_log[v]) :
                  (n < m /\ socket_log[v][n][1] = tx[v].i /\ socket_log[v][m][1] = tx[v].i)
                      => socket_log[v][n][2] < socket_log[v][m][2]

\* C18. Emission order within an SPDU, as the code has it: in each of the two
\* passes over an SPDU's fragments the transmitter hands them to the socket
\* in increasing fragment_index order, first the fragments not dropped, then
\* in the resend pass the dropped ones; when nothing is dropped the whole
\* SPDU leaves in increasing fragment_index order.
C18_OrderWithinPass ==
    /\ [][C18_PassStep]_vars
    /\ []C18_NoDropInOrder

\* A finished message with some fragments sent in the first pass and two or
\* more sent in the resend pass.
C18_Witness ==
    \E v \in Vehicles :
        /\ tx[v].pc = "sleep"
        /\ Len(tx[v].resend_queue) >= 2
        /\ Len(tx[v].resend_queue) < Len(tx[v].fragments)
        /\ \A k \in 1..Len(tx[v].fragments) :
              SendsOf(v, tx[v].i, tx[v].fragments[k].fragment_index) # {}


\* The sequence numbers in the socket log of a vehicle never decrease.
C19_NonDecreasing ==
    \A v \in Vehicles :
        \A n, m \in 1..Len(socket_log[v]) :
            n < m => socket_log[v][n][1] <= socket_log[v][m][1]

\* No datagram of a message the thread has not reached yet has left, and
\* every fragment of every message it is past has, resends included.
C19_EarlierAllSent ==
    \A v \in Vehicles :
        /\ \A n \in 1..Len(socket_log[v]) : socket_log[v][n][1] <= tx[v].i
        /\ \A key \in DOMAIN produced :
              (key[1] = v /\ key[2] < tx[v].i) =>
                  \A k \in 1..Len(produced[key].fragments) :
                      SendsOf(v, key[2], produced[key].fragments[k].fragment_index) # {}

\* C19. Emission order across sequence numbers: for one sender, every datagram
\* of sequence number s, the resends of its dropped fragments included, is
\* handed to the socket before any datagram of sequence number s + 1.
C19_SequenceOrder == C19_NonDecreasing /\ C19_EarlierAllSent

\* A sender that resent a fragment of message 0 after a later one of its
\* fragments and has since sent a datagram of message 1.
C19_Witness ==
    \E v \in Vehicles :
        \E n, m, l \in 1..Len(socket_log[v]) :
            /\ n < m /\ m < l
            /\ socket_log[v][n][1] = 0
            /\ socket_log[v][m][1] = 0
            /\ socket_log[v][n][2] > socket_log[v][m][2]
            /\ socket_log[v][l][1] = 1


\* The sequence numbers of the SPDUs vehicle v has built.
BuiltBy(v) == {key[2] : key \in {k \in DOMAIN produced : k[1] = v}}

\* A step that builds an SPDU builds the one of the thread's loop index i,
\* below num_msgs, with sequence number and timestep both i, after those of
\* 0..i-1 and never built before; what was built stays as it was.
C20_BuildStep ==
    produced' # produced =>
        \E v \in Vehicles :
            LET i == tx[v].i
                key == make_message_key(v, i)
            IN /\ tx[v].pc = "prepare"
               /\ i < num_msgs
               /\ BuiltBy(v) = 0..(i - 1)
               /\ key \notin DOMAIN produced
               /\ DOMAIN produced' = DOMAIN produced \cup {key}
               /\ \A other \in DOMAIN produced : produced'[other] = produced[other]
               /\ \A k \in 1..Len(produced'[key].fragments) :
                     LET fragment == produced'[key].fragments[k]
                     IN /\ fragment.vehicle_id = v
                        /\ fragment.sequence_number = i
                        /\ fragment.data.signedData.tbsData.message = generate_bsm(v, i)

\* The loop index counts the SPDUs built; a thread that returned built
\* exactly those of 0..num_msgs-1.
C20_BuiltSoFar ==
    \A v \in Vehicles :
        /\ tx[v].i \in 0..num_msgs
        /\ BuiltBy(v) = IF tx[v].pc = "prepare" THEN 0..(tx[v].i - 1)
                        ELSE IF tx[v].pc = "done" THEN 0..(num_msgs - 1)
                        ELSE 0..tx[v].i
        /\ tx[v].pc = "done" <=> tx[v].i = num_msgs

\* Every thread has returned: the joins of main are over.
AllThreadsDone == \A v \in Vehicles : tx[v].pc = "done"

\* C20. Sender progress: each transmitter thread builds exactly M SPDUs, with
\* sequence numbers 0, 1, ..., M-1 in that order and timestep equal to the
\* sequence number, never builds a (vehicle_id, sequence_number) twice, and
\* returns after message M-1 whatever the loss rate and the drops; the
\* transmitter run ends once all V threads have returned.
C20_SenderProgress ==
    /\ [][C20_BuildStep]_vars
    /\ []C20_BuiltSoFar
    /\ <>[]AllThreadsDone

\* All the threads have returned after two messages or more each, at drop
\* rate 1: every fragment was dropped and resent.
C20_Witness ==
    /\ AllThreadsDone
    /\ num_msgs >= 2
    /\ drop_rate = 100
    /\ \A v \in Vehicles : BuiltBy(v) = 0..(num_msgs - 1)


(***************************************************************************)
(* The reassembly entry of a key from its creation to its hand-over.       *)
(***************************************************************************)
\* What a fragment read for a key that is in the table leaves of the entry's
\* allocation: the buffer and the bitmap keep their sizes, the first-arrival
\* instant its value, and a bit that was set stays set.
C21_PendingStep ==
    \A f \in net :
        (Delivered(f) /\ rx_pc = "running" /\ KeyOf(f) \in DOMAIN pending_messages) =>
            LET old == pending_messages[KeyOf(f)]
            IN IF KeyOf(f) \in DOMAIN pending_messages'
               THEN LET new == pending_messages'[KeyOf(f)]
                    IN /\ Len(new.signature_buffer) = Len(old.signature_buffer)
                       /\ Len(new.fragments_received) = Len(old.fragments_received)
                       /\ new.first_fragment_time = old.first_fragment_time
                       /\ \A k \in 1..Len(old.fragments_received) :
                             old.fragments_received[k] => new.fragments_received[k]
               ELSE /\ Len(handoffs'[KeyOf(f)].assembled_signature) =
                          Len(old.signature_buffer)
                    /\ Len(handoffs'[KeyOf(f)].fragments_received) =
                          Len(old.fragments_received)

\* C21. Single initialization of a reassembly entry: the signature buffer, the
\* arrival bitmap and the first-arrival instant of the entry of a key are
\* initialized once, on the first fragment read for the key since the key was
\* last absent; a later fragment for a key that is still pending neither
\* re-allocates the buffer nor clears a bit already set.
C21_SingleInit == [][C21_PendingStep]_vars

\* The same for the entries whose signature buffer is not empty, the only
\* ones line 279 leaves alone.
C21_NonEmptyKept ==
    [][\A f \in net :
          (/\ Delivered(f)
           /\ rx_pc = "running"
           /\ KeyOf(f) \in DOMAIN pending_messages
           /\ pending_messages[KeyOf(f)].signature_buffer # <<>>) =>
              LET old == pending_messages[KeyOf(f)]
              IN IF KeyOf(f) \in DOMAIN pending_messages'
                 THEN LET new == pending_messages'[KeyOf(f)]
                      IN /\ Len(new.signature_buffer) = Len(old.signature_buffer)
                         /\ Len(new.fragments_received) = Len(old.fragments_received)
                         /\ new.first_fragment_time = old.first_fragment_time
                         /\ \A k \in 1..Len(old.fragments_received) :
                               old.fragments_received[k] => new.fragments_received[k]
                 ELSE /\ Len(handoffs'[KeyOf(f)].assembled_signature) =
                            Len(old.signature_buffer)
                      /\ Len(handoffs'[KeyOf(f)].fragments_received) =
                            Len(old.fragments_received)]_vars

\* A pending entry with an empty buffer and a bit set, which the next
\* fragment of its key initializes again.
C21_EmptyPending ==
    \E key \in DOMAIN pending_messages :
        /\ pending_messages[key].signature_buffer = <<>>
        /\ \E k \in 1..Len(pending_messages[key].fragments_received) :
              pending_messages[key].fragments_received[k]


\* The template of f's key after the step that read f: the one of the entry
\* if the key is still pending, the one handed to verify_message if not.
TemplateAfter(f) ==
    IF KeyOf(f) \in DOMAIN pending_messages'
    THEN pending_messages'[KeyOf(f)].template_fragment
    ELSE handoffs'[KeyOf(f)].spdu

\* Every fragment read writes its own data, lengths, scheme and count into
\* the template of its key (lines 302-306), stored or not.
C22_TemplateStep ==
    \A f \in net :
        (Delivered(f) /\ rx_pc = "running") =>
            /\ TemplateAfter(f).data = f.data
            /\ TemplateAfter(f).signature_scheme = f.signature_scheme
            /\ TemplateAfter(f).fragment_count = f.fragment_count
            /\ TemplateAfter(f).signature_buffer_length = f.signature_buffer_length

\* The sizes of the buffer and of the bitmap of a key in the table are not
\* changed by a fragment read for it.
C22_SizesStep ==
    \A f \in net :
        (Delivered(f) /\ rx_pc = "running" /\ KeyOf(f) \in DOMAIN pending_messages) =>
            LET old == pending_messages[KeyOf(f)]
            IN IF KeyOf(f) \in DOMAIN pending_messages'
               THEN /\ Len(pending_messages'[KeyOf(f)].signature_buffer) =
                          Len(old.signature_buffer)
                    /\ Len(pending_messages'[KeyOf(f)].fragments_received) =
                          Len(old.fragments_received)
               ELSE /\ Len(handoffs'[KeyOf(f)].assembled_signature) =
                          Len(old.signature_buffer)
                    /\ Len(handoffs'[KeyOf(f)].fragments_received) =
                          Len(old.fragments_received)

\* At a hand-over the verifier is given the data and the scheme of the
\* fragment whose arrival completed the SPDU.
C22_HandOffStep ==
    \A f \in net :
        (Delivered(f) /\ HandedOff) =>
            /\ handoffs'[KeyOf(f)].spdu.data = f.data
            /\ handoffs'[KeyOf(f)].spdu.signature_scheme = f.signature_scheme

\* The template half of the statement alone.
C22_TemplateFollowsLast == [][C22_TemplateStep /\ C22_HandOffStep]_vars

\* C22. Last writer wins: every fragment read for a key, a duplicate or an
\* ignored anomalous one included, overwrites the template's signed data,
\* scheme, fragment count and signature buffer length with its own, while the
\* sizes of the signature buffer and of the bitmap stay those set by the
\* first fragment; at hand-over the verifier sees the signed data and the
\* scheme of the fragment whose arrival completed the SPDU.
C22_LastWriterWins ==
    [][C22_TemplateStep /\ C22_SizesStep /\ C22_HandOffStep]_vars

\* An SPDU of several fragments handed over with the signer's signature
\* bytes and signed data that are not the signer's: those of the last
\* fragment read.
C22_LastWriterSeen ==
    \E key \in DOMAIN handoffs :
        /\ key \in DOMAIN produced
        /\ Len(handoffs[key].fragments_received) >= 2
        /\ handoffs[key].assembled_signature = produced[key].signature
        /\ handoffs[key].spdu.data # produced[key].fragments[1].data


\* The entry a key gets when the fragments the signer built for it are read
\* alone, in the signer's order, by lines 276-306.
RECURSIVE FeedAlone(_, _, _)
FeedAlone(entry, fragments, k) ==
    IF k > Len(fragments)
    THEN entry
    ELSE FeedAlone(UpdateTemplate(StoreFragment(InitEntry(entry, fragments[k], 0),
                                                fragments[k]),
                                  fragments[k]),
                   fragments, k + 1)

AloneBuffer(key) == FeedAlone(DefaultEntry, produced[key].fragments, 1).signature_buffer

\* Fragments of different (vehicle_id, sequence_number) have different keys.
C23_DistinctKeys ==
    \A f, g \in OnTheAir :
        <<f.vehicle_id, f.sequence_number>> # <<g.vehicle_id, g.sequence_number>>
            => KeyOf(f) # KeyOf(g)

\* A step that reads a fragment of one key leaves the entry and the
\* hand-over of every other key as they were.
C23_FrameStep ==
    \A f \in net :
        Delivered(f) =>
            /\ \A other \in DOMAIN pending_messages \ {KeyOf(f)} :
                  /\ other \in DOMAIN pending_messages'
                  /\ pending_messages'[other] = pending_messages[other]
            /\ DOMAIN pending_messages' \subseteq DOMAIN pending_messages \cup {KeyOf(f)}
            /\ \A other \in DOMAIN handoffs \ {KeyOf(f)} :
                  /\ other \in DOMAIN handoffs'
                  /\ handoffs'[other] = handoffs[other]
            /\ DOMAIN handoffs' \subseteq DOMAIN handoffs \cup {KeyOf(f)}

\* The buffer handed over for an SPDU is the one its fragments give alone.
C23_AsIfAlone ==
    \A key \in DOMAIN handoffs :
        /\ key \in DOMAIN produced
        /\ handoffs[key].assembled_signature = AloneBuffer(key)

\* C23. Key isolation under interleaving: distinct (vehicle_id,
\* sequence_number) pairs have distinct reassembly keys, and a fragment read
\* for one key leaves the entry (buffer, bitmap, template) of every other key
\* unchanged; so whatever the interleaving of the fragments of different SPDUs
\* of any senders, the buffer of each SPDU at completion is the one it has
\* when its fragments are delivered alone.
C23_KeyIsolation ==
    /\ [](C23_DistinctKeys /\ C23_AsIfAlone)
    /\ [][C23_FrameStep]_vars

\* Two SPDUs of several fragments whose fragments were read interleaved: the
\* first is handed over while the second, begun before, is still pending
\* with a fragment stored.
C23_Witness ==
    \E done \in DOMAIN handoffs : \E open \in DOMAIN pending_messages :
        /\ done # open
        /\ Len(handoffs[done].fragments_received) >= 2
        /\ handoffs[done].received_time >= pending_messages[open].first_fragment_time
        /\ Len(pending_messages[open].fragments_received) >= 2
        /\ \E k \in 1..Len(pending_messages[open].fragments_received) :
              pending_messages[open].fragments_received[k]
        /\ \E p \in 1..Len(pending_messages[open].signature_buffer) :
              pending_messages[open].signature_buffer[p] # 0

\* Two entries pending at once, each with a fragment stored.
C23_TwoOpen ==
    \E a, b \in DOMAIN pending_messages :
        /\ a # b
        /\ \E k \in 1..Len(pending_messages[a].fragments_received) :
              pending_messages[a].fragments_received[k]
        /\ \E k \in 1..Len(pending_messages[b].fragments_received) :
              pending_messages[b].fragments_received[k]


(***************************************************************************)
(* verify_message on what the receive loop hands it.                       *)
(***************************************************************************)
\* C24. Scheme dispatch in the verifier: the payload check is chosen by the
\* scheme tag the completed SPDU carries, not by the scheme the receiver is
\* configured with: tag ECDSA checks the reassembled buffer with ECDSA against
\* the SHA-256 digest of tbsData, tag FALCON checks it with Falcon against the
\* tbsData bytes; the certificate check is ECDSA in both cases.
\* An ECDSA length beyond the bytes held in the buffer is the matter of C27.
C24_SchemeDispatch ==
    \A key \in DOMAIN handoffs :
        LET h == handoffs[key]
            tbsData == h.spdu.data.signedData.tbsData
        IN /\ h.spdu.certificate_signature_buffer_length
                 <= Len(h.spdu.data.certificate_signature)
              => h.result.cert_result =
                    (Issued("ecdsa", CertKey(h.vehicle_id),
                            sha256sum(h.spdu.data.signedData.cert),
                            SubSeq(h.spdu.data.certificate_signature, 1,
                                   h.spdu.certificate_signature_buffer_length))
                        \in signed)
           /\ (/\ h.spdu.signature_scheme = ECDSA
               /\ h.spdu.signature_buffer_length <= Len(h.assembled_signature))
              => h.result.sig_result =
                    (Issued("ecdsa", SigningKey(h.vehicle_id), sha256sum(tbsData),
                            SubSeq(h.assembled_signature, 1,
                                   h.spdu.signature_buffer_length))
                        \in signed)
           /\ h.spdu.signature_scheme = FALCON
              => h.result.sig_result =
                    (Issued("falcon", FalconKey(h.vehicle_id), tbsData,
                            h.assembled_signature)
                        \in signed)

\* An SPDU signed under the configured scheme and handed over with the other
\* tag: signer's signed data and signature bytes, good certificate, and a
\* payload check that fails because it was made under the tag.
C24_Witness ==
    \E key \in DOMAIN handoffs :
        LET h == handoffs[key]
        IN /\ key \in DOMAIN produced
           /\ h.spdu.signature_scheme \in {ECDSA, FALCON}
           /\ h.spdu.signature_scheme # pqc.scheme
           /\ h.spdu.data = produced[key].fragments[1].data
           /\ h.assembled_signature = produced[key].signature
           /\ h.result.cert_result
           /\ ~h.result.sig_result

\* The two directions of C24_Witness.
C24_TaggedFalcon == C24_Witness /\ pqc.scheme = ECDSA

C24_TaggedEcdsa == C24_Witness /\ pqc.scheme = FALCON


(***************************************************************************)
(* The completed counter against the SPDUs completed.                      *)
(***************************************************************************)
\* C25. No double counting: for any delivery sequence, one in which the
\* network duplicates datagrams included, each (vehicle_id, sequence_number)
\* is handed to the verifier and counted in the completed counter at most
\* once, so the receiver terminates only after M x V distinct SPDUs have been
\* completed: the counter is the number of keys handed over.
C25_NoDoubleCounting ==
    /\ \A key \in DOMAIN handoffs : handoffs[key].count = 1
    /\ completed_messages = Cardinality(DOMAIN handoffs)
    /\ rx_pc = "exited" => Cardinality(DOMAIN handoffs) = ExpectedTotal

\* The same while the network has delivered no datagram twice.
C25_WithoutCopies == forged = 0 => C25_NoDoubleCounting

\* The receiver has exited on the second completion of one SPDU, another
\* SPDU never completed.
C25_CountedTwice ==
    /\ rx_pc = "exited"
    /\ \E key \in DOMAIN handoffs : handoffs[key].count = 2
    /\ Cardinality(DOMAIN handoffs) < ExpectedTotal


(***************************************************************************)
(* The bytes copy_n takes out of a fragment.                               *)
(***************************************************************************)
\* The arrival bitmap of f's key after the step that read f.
BitmapAfter(f) ==
    IF KeyOf(f) \in DOMAIN pending_messages'
    THEN pending_messages'[KeyOf(f)].fragments_received
    ELSE handoffs'[KeyOf(f)].fragments_received

\* The step that read f stored it: copy_n of line 294 ran with
\* length = f.fragment_length and line 297 set the bit of f's index.
Stored(f) ==
    /\ Delivered(f)
    /\ rx_pc = "running"
    /\ f.fragment_index < Len(EntryBefore(f).fragments_received)
    /\ ~EntryBefore(f).fragments_received[f.fragment_index + 1]
    /\ BitmapAfter(f)[f.fragment_index + 1]

\* C26. Bounded payload read: for every fragment read, the number of bytes
\* the receiver copies out of the fragment's signature_fragment array (512
\* bytes, here MAX_SIGNATURE_FRAGMENT_SIZE) into the signature buffer is at
\* most the size of the array, whatever fragment_length, signature_offset and
\* signature_buffer_length the datagram declares.
C26_BoundedRead ==
    [][\A f \in net : Stored(f) => f.fragment_length <= MAX_SIGNATURE_FRAGMENT_SIZE]_vars

\* The bound the code does enforce: the bytes copied fit the entry's buffer.
C26_WithinBuffer ==
    [][\A f \in net :
          Stored(f) => f.signature_offset + f.fragment_length
                          <= Len(EntryBefore(f).signature_buffer)]_vars

\* A signature buffer handed to the verifier whose byte after the capacity
\* of the array is not a byte of any datagram.
C26_StrayByte ==
    \E key \in DOMAIN handoffs :
        /\ Len(handoffs[key].assembled_signature) > MAX_SIGNATURE_FRAGMENT_SIZE
        /\ handoffs[key].assembled_signature[MAX_SIGNATURE_FRAGMENT_SIZE + 1] = 255


(***************************************************************************)
(* The lengths the template carries at a hand-over.                        *)
(***************************************************************************)
\* C27. Consistent lengths at hand-off: whenever the receiver calls the
\* verifier, the template's signature_buffer_length equals the size of the
\* reassembled signature buffer and the template's fragment_count equals the
\* length of the arrival bitmap, so the signature length given to the ECDSA
\* check never exceeds the bytes held in the reassembled buffer.
C27_ConsistentLengths ==
    \A key \in DOMAIN handoffs :
        LET h == handoffs[key]
        IN /\ h.spdu.signature_buffer_length = Len(h.assembled_signature)
           /\ h.spdu.fragment_count = Len(h.fragments_received)
           /\ h.spdu.signature_scheme = ECDSA
                 => h.spdu.signature_buffer_length <= Len(h.assembled_signature)

\* An ECDSA check asked to read more bytes than the buffer holds.
C27_EcdsaOverRead ==
    \E key \in DOMAIN handoffs :
        /\ handoffs[key].spdu.signature_scheme = ECDSA
        /\ handoffs[key].spdu.signature_buffer_length
              > Len(handoffs[key].assembled_signature)
        /\ handoffs[key].spdu.fragment_count > Len(handoffs[key].fragments_received)

\* The verdict of such a check is not determined by the datagrams: it can
\* come out true.
C27_OverReadAccepted ==
    \E key \in DOMAIN handoffs :
        /\ handoffs[key].spdu.signature_buffer_length
              > Len(handoffs[key].assembled_signature)
        /\ handoffs[key].result.sig_result


(***************************************************************************)
(* The trace samples the BSM generator reads.                              *)
(***************************************************************************)
\* The thread of v builds its next message in this step.
Builds(v) == tx[v].pc = "prepare" /\ tx'[v] # tx[v]

\* Every message built reads samples of the trace only; the SPDU of message
\* 0 reports speed 0 and heading 0.
C28_BuildStep ==
    \A v \in Vehicles :
        Builds(v) =>
            /\ tx[v].i \in 0..(num_msgs - 1)
            /\ SamplesRead(tx[v].i) \subseteq 0..(trace_len - 1)
            /\ tx[v].i = 0 => SamplesRead(0) = {0}
            /\ (tx[v].i = 0 /\ make_message_key(v, 0) \in DOMAIN produced') =>
                  LET message == produced'[make_message_key(v, 0)].fragments[1]
                                    .data.signedData.tbsData.message
                  IN message.speed = 0 /\ message.heading = 0

\* C28. Trace bounds: for every message index t in [0, M) the BSM generator
\* reads only trace samples whose index lies in [0, trace length): sample t,
\* and sample t - 1 when t > 0; for t = 0 it reads no previous sample and
\* reports speed = 0 and heading = 0.
C28_TraceBounds == [][C28_BuildStep]_vars

\* The same when the trace has a sample for every message of the run.
C28_LongEnoughTrace ==
    [][trace_len >= num_msgs => C28_BuildStep]_vars

\* A message signed and sent whose BSM is not the one of the trace.
C28_StrayMessage ==
    \E key \in DOMAIN produced :
        /\ key[2] >= trace_len
        /\ produced[key].fragments[1].data.signedData.tbsData.message \in StrayBsm
        /\ \E f \in net : KeyOf(f) = key

\* The sender ended by a read outside the trace.
C28_Fault ==
    \E v \in Vehicles :
        /\ tx[v].pc = "failed"
        /\ tx[v].i >= trace_len
        /\ tx[v].i < num_msgs

=============================================================================
